---------------------------- MODULE Spec2Model ----------------------------
(***************************************************************************)
(* A model of the graph-coloring engine of k-color-api (algorithms/*.py).  *)
(*                                                                         *)
(* A graph is the Python adjacency dict {node: [neighbours]}.  Its nodes   *)
(* are named 1..n by their position in the dict's key order, so that the   *)
(* key order (which the algorithms iterate in) is 1, 2, ..., n and every   *)
(* input order of an abstract graph is one of the labelled graphs.  The    *)
(* neighbour list of a node is the set graph[v]; a self-loop is v \in      *)
(* graph[v].  A Python dict is a function whose DOMAIN is its key set.     *)
(* One behaviour is one call of one algorithm: Init draws the algorithm    *)
(* and its arguments, the actions are the steps of that call, and result   *)
(* is what the call gives back.                                            *)
(***************************************************************************)
EXTENDS Integers, Sequences, FiniteSets, TLC

VARIABLES
    alg,                 \* the function that is called
    graph,               \* its argument graph
    initial_assignment,  \* its argument initial_assignment (the pinned colors)
    pc,                  \* "start", "run" or "done"
    loc,                 \* the local variables of the call, by their names
    result               \* what the call returned (or raised)

vars == <<alg, graph, initial_assignment, pc, loc, result>>

---------------------------------------------------------------------------
(* Bounds of the model. *)

\* exact search is run on every graph of at most MaxN nodes
MaxN == 5
\* the heuristics, which draw at random or break ties freely, on at most MaxRandN nodes
MaxRandN == 4
\* pinned runs are on graphs of at most MaxPinN nodes, pinned colors 1..MaxPinColor
MaxPinN == 3
MaxPinColor == 3
\* graphs with self-loops have at most MaxLoopN nodes
MaxLoopN == 2
\* the drivers "while True: ... k += 1" are cut off at k = MaxK
MaxK == 8
\* the callers that pass k to the backtracking drivers pass 0..MaxStartK
MaxStartK == 3
\* that a search comes to an end is checked on every graph of at most MaxFairN nodes
MaxFairN == 4
\* simulated annealing and the Metropolis sampler run on at most MaxSaN nodes,
\* and their main loops are cut off after MaxIter passes
MaxSaN == 3
MaxIter == 3
\* the genetic algorithm runs on graphs of at most MaxGaN nodes (MaxGaLoopN when
\* there is a self-loop), with a
\* population of population_size (the least that tournament_selection, which
\* draws three members, can take) and max_generations in 1..MaxGenerations
MaxGaN == 2
MaxGaLoopN == 1
population_size == 3
MaxGenerations == 2
\* validate_graph is called on graphs of at most MaxValN nodes
MaxValN == 3
\* the chromatic polynomial is computed for every graph of at most MaxPolyN
\* nodes and evaluated at x in 0..MaxX
MaxPolyN == 4
MaxX == 5

---------------------------------------------------------------------------
(* Python values. *)

\* None in a field that otherwise holds a number
NoneVal == 0 - 1

EmptyDict == [x \in {} |-> 0]

\* d[key] = val
Put(d, key, val) == [x \in DOMAIN d \cup {key} |-> IF x = key THEN val ELSE d[x]]

\* "del coloring[current_node]" left out
DelNothing(d, x) == d

\* del d[key]
Del(d, key) == [x \in DOMAIN d \ {key} |-> d[x]]

\* d.values()
Values(d) == {d[x] : x \in DOMAIN d}

\* max(S) of a non-empty set of numbers
Max(S) == CHOOSE m \in S : \A x \in S : x <= m

Min(S) == CHOOSE m \in S : \A x \in S : m <= x

\* max(d.values()) if d else dflt
MaxValueOr(d, dflt) == IF DOMAIN d = {} THEN dflt ELSE Max(Values(d))

Nodes(g) == DOMAIN g

\* the orders a list of the elements of S can have
Perms(S) ==
    {s \in [1..Cardinality(S) -> S] : \A i, j \in 1..Cardinality(S) : i # j => s[i] # s[j]}

\* "for node, neighbors in graph.items(): if node in neighbors": some node is
\* its own neighbour
SelfLoopCheck(g) == \E node \in Nodes(g) : node \in g[node]

\* the same with "if" for "while": one step past color 1 at most
SmallestColorIf(neighbor_colors) == IF 1 \in neighbor_colors THEN 2 ELSE 1

\* "color = 1; while color in neighbor_colors: color += 1"
SmallestColorNotIn(neighbor_colors) ==
    Min({c \in 1..(Cardinality(neighbor_colors) + 1) : c \notin neighbor_colors})

\* len(graph[v])
Degree(g, v) == Cardinality(g[v])

\* sorted(nodes, key=lambda x: len(graph[x]), reverse=True): a stable sort, so
\* nodes of equal degree keep their key order
SortedByDegree(g) ==
    LET rank(v) == Cardinality({u \in Nodes(g) :
                        \/ Degree(g, u) > Degree(g, v)
                        \/ Degree(g, u) = Degree(g, v) /\ u < v})
    IN  [i \in 1..Cardinality(Nodes(g)) |-> CHOOSE v \in Nodes(g) : rank(v) = i - 1]

\* algorithmResultTemplate.copy(): algorithms/algorithmResult.py
algorithmResultTemplate ==
    [status |-> "running", chromatic_number |-> NoneVal, k |-> NoneVal,
     coloring |-> EmptyDict, steps |-> <<>>]

\* "return None"
ReturnNone == [algorithmResultTemplate EXCEPT !.status = "None"]

\* an uncaught exception
Raised == [algorithmResultTemplate EXCEPT !.status = "raised"]

---------------------------------------------------------------------------
(* The inputs. *)

Pairs(n) == {e \in SUBSET (1..n) : Cardinality(e) = 2}

MkGraph(n, E, L) ==
    [v \in 1..n |-> {u \in 1..n : u # v /\ {u, v} \in E} \cup (IF v \in L THEN {v} ELSE {})]

\* the loop-free symmetric graphs on n nodes
SimpleGraphs(n) == {MkGraph(n, E, {}) : E \in SUBSET Pairs(n)}

\* the symmetric graphs on n nodes with at least one self-loop
LoopGraphs(n) ==
    {MkGraph(n, Ls[1], Ls[2]) : Ls \in (SUBSET Pairs(n)) \X (SUBSET (1..n) \ {{}})}

\* a bipartite graph on ten nodes: {1: [4, 7, 8], 2: [5, 9, 10], 3: [6, 9, 10],
\* 4: [1], 5: [2], 6: [3, 7, 8], 7: [1, 6, 10], 8: [1, 6], 9: [2, 3], 10: [2, 3, 7]}
TenNodeGraph ==
    MkGraph(10, {{1, 4}, {1, 7}, {1, 8}, {2, 5}, {2, 9}, {2, 10}, {3, 6}, {3, 9},
                 {3, 10}, {6, 7}, {6, 8}, {7, 10}}, {})

\* a value that is None or a dict
NoneDict == [given |-> FALSE, map |-> EmptyDict]

SomeDict(d) == [given |-> TRUE, map |-> d]

\* initial_assignment=None
NoAssignment == NoneDict

\* the dicts that pin some nodes of g to colors 1..C: f[v] = 0 leaves v out
Assignments(g, C) ==
    {SomeDict([v \in {x \in Nodes(g) : f[x] # 0} |-> f[v]]) : f \in [Nodes(g) -> 0..C]}

HasSelfLoop(g) == \E v \in Nodes(g) : v \in g[v]

\* the edges, each once
Edges(g) == {e \in SUBSET Nodes(g) : Cardinality(e) = 2 /\ \E u \in e : (e \ {u}) \subseteq g[u]}

\* no two adjacent nodes that both have a color share it
Proper(g, c) ==
    \A u \in DOMAIN c : \A v \in g[u] : (v \in DOMAIN c /\ v # u) => c[u] # c[v]

Complete(g, c) == DOMAIN c = Nodes(g)

\* some proper complete coloring with colors 1..kk exists
Colorable(g, kk) ==
    \E c \in [Nodes(g) -> 1..kk] : \A u \in Nodes(g) : \A v \in g[u] : c[u] # c[v]

\* the least number of colors from kk on with which g can be colored
RECURSIVE ChiFrom(_, _)
ChiFrom(g, kk) == IF Colorable(g, kk) THEN kk ELSE ChiFrom(g, kk + 1)

\* the chromatic number of a loop-free graph
Chi(g) == ChiFrom(g, 0)

---------------------------------------------------------------------------
(* backtrack.py *)

\* is_safe with "return True" inside the loop: only the first neighbour is looked at
is_safe_first_neighbour(node, color, g, coloring) ==
    \A neighbour \in (IF g[node] = {} THEN {} ELSE {Min(g[node])}) :
        ~(neighbour \in DOMAIN coloring /\ coloring[neighbour] = color)

\* is_safe(node, color, graph, coloring)
is_safe(node, color, g, coloring) ==
    \A neighbour \in g[node] : ~(neighbour \in DOMAIN coloring /\ coloring[neighbour] = color)

\* a call of backtrack_coloring that has not run yet
BtFrame(node_index) == [node_index |-> node_index, color |-> 0, at |-> "entry"]

BtTop == loc.stack[Len(loc.stack)]

BtPop == SubSeq(loc.stack, 1, Len(loc.stack) - 1)

BtSetTop(f) == [loc.stack EXCEPT ![Len(loc.stack)] = f]

\* nodes_ordered[node_index] of the running call
BtNode == loc.nodes_ordered[BtTop.node_index + 1]

\* the locals of find_min_k_backtracking, called with k = k_arg, at the first
\* call of backtrack_coloring
find_min_k_backtracking_locals(k_arg) ==
    LET max_initial == MaxValueOr(initial_assignment.map, 1)
        k == IF initial_assignment.given /\ k_arg < max_initial THEN max_initial ELSE k_arg
    IN  [nodes_ordered |-> SortedByDegree(graph),
         coloring |-> initial_assignment.map,
         k |-> k,
         steps_list |-> <<>>,
         stack |-> <<BtFrame(0)>>,
         ret |-> "none"]

\* find_min_k_backtracking up to the first call of backtrack_coloring; k = 1
find_min_k_backtracking_init ==
    /\ alg = "backtracking" /\ pc = "start"
    /\ loc' = find_min_k_backtracking_locals(1)
    /\ pc' = "run"
    /\ UNCHANGED <<alg, graph, initial_assignment, result>>

\* the same for a caller that passes k: loc.k_arg holds the argument
find_min_k_backtracking_init_k ==
    /\ alg = "backtracking" /\ pc = "start"
    /\ loc' = [k_arg |-> loc.k_arg] @@ find_min_k_backtracking_locals(loc.k_arg)
    /\ pc' = "run"
    /\ UNCHANGED <<alg, graph, initial_assignment, result>>

\* backtrack_coloring: node_index == len(nodes_ordered), return True
backtrack_coloring_base ==
    /\ alg = "backtracking" /\ pc = "run" /\ loc.stack # <<>> /\ loc.ret = "none"
    /\ BtTop.at = "entry"
    /\ BtTop.node_index = Len(loc.nodes_ordered)
    /\ loc' = [loc EXCEPT !.stack = BtPop, !.ret = "True"]
    /\ UNCHANGED <<alg, graph, initial_assignment, pc, result>>

\* backtrack_coloring: the node has a color already, call for the next index
backtrack_coloring_skip ==
    /\ alg = "backtracking" /\ pc = "run" /\ loc.stack # <<>> /\ loc.ret = "none"
    /\ BtTop.at = "entry"
    /\ BtTop.node_index < Len(loc.nodes_ordered)
    /\ BtNode \in DOMAIN loc.coloring
    /\ loc' = [loc EXCEPT !.stack =
                  Append(BtSetTop([BtTop EXCEPT !.at = "line38"]), BtFrame(BtTop.node_index + 1))]
    /\ UNCHANGED <<alg, graph, initial_assignment, pc, result>>

\* backtrack_coloring: the for loop from the color after the last one tried to
\* the next safe color (assign it and recurse) or to its end (return False)
backtrack_coloring_try ==
    /\ alg = "backtracking" /\ pc = "run" /\ loc.stack # <<>> /\ loc.ret = "none"
    /\ IF BtTop.at = "entry"
       THEN BtTop.node_index < Len(loc.nodes_ordered) /\ BtNode \notin DOMAIN loc.coloring
       ELSE BtTop.at = "line41"
    /\ LET safe == {c \in (BtTop.color + 1)..loc.k : is_safe(BtNode, c, graph, loc.coloring)}
       IN  IF safe # {}
           THEN LET color == Min(safe)
                    coloring == Put(loc.coloring, BtNode, color)
                IN  loc' = [loc EXCEPT
                        !.coloring = coloring,
                        !.steps_list = Append(@, coloring),
                        !.stack = Append(BtSetTop([BtTop EXCEPT !.color = color, !.at = "line46"]),
                                         BtFrame(BtTop.node_index + 1))]
           ELSE loc' = [loc EXCEPT
                        !.steps_list = Append(@, loc.coloring),
                        !.stack = BtPop,
                        !.ret = "False"]
    /\ UNCHANGED <<alg, graph, initial_assignment, pc, result>>

\* backtrack_coloring: a recursive call has returned
backtrack_coloring_return ==
    /\ alg = "backtracking" /\ pc = "run" /\ loc.stack # <<>> /\ loc.ret # "none"
    /\ \/ /\ BtTop.at = "line38" \/ loc.ret = "True"
          /\ loc' = [loc EXCEPT !.stack = BtPop]
       \/ /\ BtTop.at = "line46" /\ loc.ret = "False"
          /\ LET coloring == Del(loc.coloring, BtNode)
             IN  loc' = [loc EXCEPT
                        !.coloring = coloring,
                        !.steps_list = Append(@, coloring),
                        !.stack = BtSetTop([BtTop EXCEPT !.at = "line41"]),
                        !.ret = "none"]
    /\ UNCHANGED <<alg, graph, initial_assignment, pc, result>>

\* find_min_k_backtracking: the outermost call returned True
find_min_k_backtracking_return ==
    /\ alg = "backtracking" /\ pc = "run" /\ loc.stack = <<>> /\ loc.ret = "True"
    /\ result' = [algorithmResultTemplate EXCEPT
                    !.status = "returned",
                    !.chromatic_number = loc.k,
                    !.k = loc.k,
                    !.steps = Append(loc.steps_list, loc.coloring),
                    !.coloring = loc.coloring]
    /\ pc' = "done"
    /\ UNCHANGED <<alg, graph, initial_assignment, loc>>

\* find_min_k_backtracking: the outermost call returned False, k += 1
find_min_k_backtracking_next_k ==
    /\ alg = "backtracking" /\ pc = "run" /\ loc.stack = <<>> /\ loc.ret = "False"
    /\ loc.k < MaxK
    /\ loc' = [loc EXCEPT !.k = @ + 1, !.stack = <<BtFrame(0)>>, !.ret = "none"]
    /\ UNCHANGED <<alg, graph, initial_assignment, pc, result>>

NextBacktracking ==
    \/ find_min_k_backtracking_init
    \/ backtrack_coloring_base
    \/ backtrack_coloring_skip
    \/ backtrack_coloring_try
    \/ backtrack_coloring_return
    \/ find_min_k_backtracking_return
    \/ find_min_k_backtracking_next_k

---------------------------------------------------------------------------
(* branchAndBound.py *)

\* is_safe(node, color, graph, coloring) of branchAndBound.py
bb_is_safe(node, color, g, coloring) ==
    \A neighbour \in g[node] : ~(neighbour \in DOMAIN coloring /\ coloring[neighbour] = color)

\* greedy_extension: the for loop over nodes_ordered from index i on
RECURSIVE greedy_extension_from(_, _, _, _, _)
greedy_extension_from(i, new_coloring, current_max, nodes_ordered, g) ==
    IF i > Len(nodes_ordered) THEN current_max
    ELSE LET node == nodes_ordered[i]
             safe == {c \in 1..current_max : bb_is_safe(node, c, g, new_coloring)}
         IN  IF node \in DOMAIN new_coloring
             THEN greedy_extension_from(i + 1, new_coloring, current_max, nodes_ordered, g)
             ELSE IF safe # {}
             THEN greedy_extension_from(i + 1, Put(new_coloring, node, Min(safe)),
                                        current_max, nodes_ordered, g)
             ELSE greedy_extension_from(i + 1, Put(new_coloring, node, current_max + 1),
                                        current_max + 1, nodes_ordered, g)

\* greedy_extension(coloring, nodes_ordered, graph)
greedy_extension(coloring, nodes_ordered, g) ==
    greedy_extension_from(1, coloring, MaxValueOr(coloring, 0), nodes_ordered, g)

\* the known optimal number of colors, the argument k: None
bb_k == NoneVal

\* heapq.heappop(heap): the least (priority, counter)
HeapMin(heap) ==
    CHOOSE e \in heap : \A f \in heap :
        e.prio < f.prio \/ (e.prio = f.prio /\ e.counter <= f.counter)

\* the color range tried for the next node: range(1, min(current_max + 2, best_chromatic + 1))
bb_colors_to_try(current_max, best_chromatic) ==
    1..(Min({current_max + 2, best_chromatic + 1}) - 1)

\* find_min_k_branch_and_bound up to the while loop
find_min_k_branch_and_bound_init ==
    /\ alg = "branch_and_bound" /\ pc = "start"
    /\ LET nodes_ordered == SortedByDegree(graph)
           coloring == initial_assignment.map
           steps_list == <<coloring>>
       IN  loc' = [nodes_ordered |-> nodes_ordered,
                   best_chromatic |-> Cardinality(Nodes(graph)) + 1,
                   best_solution |-> NoneDict,
                   best_steps |-> <<>>,
                   counter |-> 0,
                   heap |-> {[prio |-> greedy_extension(coloring, nodes_ordered, graph),
                              counter |-> 0, coloring |-> coloring, steps |-> steps_list]}]
    /\ pc' = "run"
    /\ UNCHANGED <<alg, graph, initial_assignment, result>>

\* one pass of the while loop: the popped state is pruned
find_min_k_branch_and_bound_prune ==
    /\ alg = "branch_and_bound" /\ pc = "run" /\ loc.heap # {}
    /\ LET e == HeapMin(loc.heap)
       IN  /\ e.prio >= loc.best_chromatic
           /\ loc' = [loc EXCEPT !.heap = @ \ {e}]
    /\ UNCHANGED <<alg, graph, initial_assignment, pc, result>>

\* one pass of the while loop: the popped state is a complete coloring
find_min_k_branch_and_bound_complete ==
    /\ alg = "branch_and_bound" /\ pc = "run" /\ loc.heap # {}
    /\ LET e == HeapMin(loc.heap)
           current_max == MaxValueOr(e.coloring, 0)
       IN  /\ e.prio < loc.best_chromatic
           /\ Cardinality(DOMAIN e.coloring) = Len(loc.nodes_ordered)
           /\ IF current_max < loc.best_chromatic
              THEN IF bb_k # NoneVal /\ current_max = bb_k
                   THEN /\ result' = [algorithmResultTemplate EXCEPT
                                        !.status = "returned",
                                        !.chromatic_number = current_max,
                                        !.k = current_max,
                                        !.coloring = e.coloring,
                                        !.steps = e.steps]
                        /\ pc' = "done"
                        /\ loc' = [loc EXCEPT !.heap = @ \ {e},
                                              !.best_chromatic = current_max,
                                              !.best_solution = SomeDict(e.coloring),
                                              !.best_steps = e.steps]
                   ELSE /\ loc' = [loc EXCEPT !.heap = @ \ {e},
                                              !.best_chromatic = current_max,
                                              !.best_solution = SomeDict(e.coloring),
                                              !.best_steps = e.steps]
                        /\ UNCHANGED <<pc, result>>
              ELSE /\ loc' = [loc EXCEPT !.heap = @ \ {e}]
                   /\ UNCHANGED <<pc, result>>
    /\ UNCHANGED <<alg, graph, initial_assignment>>

\* the children of state e that are pushed, in the order of the colors tried:
\* the for loop over the colors from color on, counter being the last one given
RECURSIVE bb_children(_, _, _, _, _)
bb_children(e, next_node, color, max_color, counter) ==
    IF color > max_color THEN {}
    ELSE LET new_coloring == Put(e.coloring, next_node, color)
             new_priority == greedy_extension(new_coloring, loc.nodes_ordered, graph)
         IN  IF bb_is_safe(next_node, color, graph, e.coloring)
                /\ new_priority < loc.best_chromatic
             THEN {[prio |-> new_priority, counter |-> counter + 1,
                    coloring |-> new_coloring, steps |-> Append(e.steps, new_coloring)]}
                  \cup bb_children(e, next_node, color + 1, max_color, counter + 1)
             ELSE bb_children(e, next_node, color + 1, max_color, counter)

\* one pass of the while loop: the popped state is expanded on its next node
find_min_k_branch_and_bound_expand ==
    /\ alg = "branch_and_bound" /\ pc = "run" /\ loc.heap # {}
    /\ LET e == HeapMin(loc.heap)
           uncolored == {i \in 1..Len(loc.nodes_ordered) :
                            loc.nodes_ordered[i] \notin DOMAIN e.coloring}
           next_node == loc.nodes_ordered[Min(uncolored)]
           current_max == MaxValueOr(e.coloring, 0)
           max_color == Max(bb_colors_to_try(current_max, loc.best_chromatic) \cup {0})
           pushed == bb_children(e, next_node, 1, max_color, loc.counter)
       IN  /\ e.prio < loc.best_chromatic
           /\ Cardinality(DOMAIN e.coloring) # Len(loc.nodes_ordered)
           /\ uncolored # {}
           /\ loc' = [loc EXCEPT !.heap = (@ \ {e}) \cup pushed,
                                 !.counter = @ + Cardinality(pushed)]
    /\ UNCHANGED <<alg, graph, initial_assignment, pc, result>>

\* the heap is empty: return None, or the best solution
find_min_k_branch_and_bound_return ==
    /\ alg = "branch_and_bound" /\ pc = "run" /\ loc.heap = {}
    /\ result' = IF ~loc.best_solution.given THEN ReturnNone
                 ELSE [algorithmResultTemplate EXCEPT
                          !.status = "returned",
                          !.chromatic_number = loc.best_chromatic,
                          !.k = loc.best_chromatic,
                          !.coloring = loc.best_solution.map,
                          !.steps = loc.best_steps]
    /\ pc' = "done"
    /\ UNCHANGED <<alg, graph, initial_assignment, loc>>

NextBranchAndBound ==
    \/ find_min_k_branch_and_bound_init
    \/ find_min_k_branch_and_bound_prune
    \/ find_min_k_branch_and_bound_complete
    \/ find_min_k_branch_and_bound_expand
    \/ find_min_k_branch_and_bound_return

---------------------------------------------------------------------------
(* greedy.py *)

\* {coloring[neighbor] for neighbor in graph[node] if neighbor in coloring}
neighbor_colors(g, coloring, node) ==
    {coloring[neighbor] : neighbor \in g[node] \cap DOMAIN coloring}

\* the result of the three greedy functions
GreedyResult(coloring, steps) ==
    [algorithmResultTemplate EXCEPT
        !.status = "returned",
        !.coloring = coloring,
        !.k = Cardinality(Values(coloring)),
        !.steps = steps]

\* greedy_coloring up to its for loop: the self-loop check and random.shuffle(nodes)
greedy_coloring_init ==
    /\ alg = "greedy" /\ pc = "start"
    /\ IF SelfLoopCheck(graph)
       THEN /\ result' = ReturnNone
            /\ pc' = "done"
            /\ UNCHANGED loc
       ELSE /\ \E nodes \in Perms(Nodes(graph)) :
                  loc' = [coloring |-> EmptyDict, nodes |-> nodes, i |-> 1, steps |-> <<>>]
            /\ pc' = "run"
            /\ UNCHANGED result
    /\ UNCHANGED <<alg, graph, initial_assignment>>

\* welsh_powell_coloring up to its for loop: the self-loop check and the sort
welsh_powell_coloring_init ==
    /\ alg = "welsh_powell" /\ pc = "start"
    /\ IF SelfLoopCheck(graph)
       THEN /\ result' = ReturnNone
            /\ pc' = "done"
            /\ UNCHANGED loc
       ELSE /\ loc' = [coloring |-> EmptyDict, nodes |-> SortedByDegree(graph),
                       i |-> 1, steps |-> <<>>]
            /\ pc' = "run"
            /\ UNCHANGED result
    /\ UNCHANGED <<alg, graph, initial_assignment>>

\* one pass of the for loop of greedy_coloring and of welsh_powell_coloring
greedy_coloring_step ==
    /\ alg \in {"greedy", "welsh_powell"} /\ pc = "run"
    /\ loc.i <= Len(loc.nodes)
    /\ LET node == loc.nodes[loc.i]
           color == SmallestColorNotIn(neighbor_colors(graph, loc.coloring, node))
           coloring == Put(loc.coloring, node, color)
       IN  loc' = [loc EXCEPT !.coloring = coloring, !.i = @ + 1,
                              !.steps = Append(@, coloring)]
    /\ UNCHANGED <<alg, graph, initial_assignment, pc, result>>

\* the for loop is over
greedy_coloring_return ==
    /\ alg \in {"greedy", "welsh_powell"} /\ pc = "run"
    /\ loc.i > Len(loc.nodes)
    /\ result' = GreedyResult(loc.coloring, loc.steps)
    /\ pc' = "done"
    /\ UNCHANGED <<alg, graph, initial_assignment, loc>>

\* greedy_bfs_coloring up to its while loop: the self-loop check, the empty
\* graph, start = random.choice(nodes)
greedy_bfs_coloring_init ==
    /\ alg = "greedy_bfs" /\ pc = "start"
    /\ IF SelfLoopCheck(graph)
       THEN /\ result' = ReturnNone
            /\ pc' = "done"
            /\ UNCHANGED loc
       ELSE IF Nodes(graph) = {}
       THEN /\ result' = [algorithmResultTemplate EXCEPT !.status = "returned"]
            /\ pc' = "done"
            /\ UNCHANGED loc
       ELSE /\ \E start \in Nodes(graph) :
                  loc' = [coloring |-> EmptyDict, bfs_queue |-> <<start>>,
                          visited |-> {start}, steps |-> <<>>]
            /\ pc' = "run"
            /\ UNCHANGED result
    /\ UNCHANGED <<alg, graph, initial_assignment>>

\* one pass of the while loop: color the head of the queue and enqueue its
\* unvisited neighbours, in the order of its neighbour list
greedy_bfs_coloring_step ==
    /\ alg = "greedy_bfs" /\ pc = "run"
    /\ loc.bfs_queue # <<>>
    /\ LET current_node == Head(loc.bfs_queue)
           color == SmallestColorNotIn(neighbor_colors(graph, loc.coloring, current_node))
           coloring == Put(loc.coloring, current_node, color)
           unvisited == graph[current_node] \ loc.visited
       IN  \E order \in Perms(unvisited) :
              loc' = [loc EXCEPT !.coloring = coloring,
                                 !.steps = Append(@, coloring),
                                 !.visited = @ \cup unvisited,
                                 !.bfs_queue = Tail(@) \o order]
    /\ UNCHANGED <<alg, graph, initial_assignment, pc, result>>

\* the queue is empty
greedy_bfs_coloring_return ==
    /\ alg = "greedy_bfs" /\ pc = "run"
    /\ loc.bfs_queue = <<>>
    /\ result' = GreedyResult(loc.coloring, loc.steps)
    /\ pc' = "done"
    /\ UNCHANGED <<alg, graph, initial_assignment, loc>>

NextGreedy ==
    \/ greedy_coloring_init
    \/ welsh_powell_coloring_init
    \/ greedy_coloring_step
    \/ greedy_coloring_return
    \/ greedy_bfs_coloring_init
    \/ greedy_bfs_coloring_step
    \/ greedy_bfs_coloring_return

---------------------------------------------------------------------------
(* dsatur.py *)

\* max(...) taken as any element
ArgAny(S, key) == S

\* the nodes of S that maximize key (a function on S): what max(S, key=...) may
\* return, S being a set, whose iteration order decides between equal keys
ArgMax(S, key) == {v \in S : \A u \in S : key[u] <= key[v]}

\* (saturation[v], degrees[v]) as one number, compared as the tuples are
dsatur_key(saturation, degrees, v) == saturation[v] * (Max(Values(degrees) \cup {0}) + 1) + degrees[v]

\* dsatur_coloring up to its main loop
dsatur_coloring_init ==
    /\ alg = "dsatur" /\ pc = "start"
    /\ IF SelfLoopCheck(graph)
       THEN /\ result' = ReturnNone
            /\ pc' = "done"
            /\ UNCHANGED loc
       ELSE IF Nodes(graph) = {}
       THEN /\ result' = [algorithmResultTemplate EXCEPT
                             !.status = "returned", !.chromatic_number = 0, !.k = 0]
            /\ pc' = "done"
            /\ UNCHANGED loc
       ELSE LET color == [node \in Nodes(graph) |->
                            IF initial_assignment.given /\ node \in DOMAIN initial_assignment.map
                            THEN initial_assignment.map[node] ELSE 0]
                uncolored_nodes == {node \in Nodes(graph) : color[node] = 0}
                neighbor_colors_used ==
                    [nbr \in Nodes(graph) |->
                        IF nbr \in uncolored_nodes
                        THEN {color[node] : node \in {x \in Nodes(graph) :
                                                color[x] # 0 /\ nbr \in graph[x]}}
                        ELSE {}]
            IN  /\ loc' = [color |-> color,
                           uncolored_nodes |-> uncolored_nodes,
                           neighbor_colors_used |-> neighbor_colors_used,
                           saturation |-> [node \in Nodes(graph) |->
                                              Cardinality(neighbor_colors_used[node])],
                           degrees |-> [node \in Nodes(graph) |-> Degree(graph, node)],
                           steps |-> <<color>>]
                /\ pc' = "run"
                /\ UNCHANGED result
    /\ UNCHANGED <<alg, graph, initial_assignment>>

\* step 4 left out: the neighbours never learn the color
dsatur_update_none(used, uncolored_nodes, current_node, c) == used

\* the bookkeeping after current_node got color c: step 4 of the main loop
dsatur_update(used, uncolored_nodes, current_node, c) ==
    [nbr \in DOMAIN used |->
        IF nbr \in graph[current_node] /\ nbr \in uncolored_nodes
        THEN used[nbr] \cup {c} ELSE used[nbr]]

\* one pass of the main loop
dsatur_coloring_step ==
    /\ alg = "dsatur" /\ pc = "run"
    /\ loc.uncolored_nodes # {}
    /\ LET key == [v \in loc.uncolored_nodes |-> dsatur_key(loc.saturation, loc.degrees, v)]
       IN  \E current_node \in ArgMax(loc.uncolored_nodes, key) :
              LET c == SmallestColorNotIn(loc.neighbor_colors_used[current_node])
                  color == [loc.color EXCEPT ![current_node] = c]
                  uncolored_nodes == loc.uncolored_nodes \ {current_node}
                  used == dsatur_update(loc.neighbor_colors_used, uncolored_nodes,
                                        current_node, c)
              IN  loc' = [loc EXCEPT
                            !.color = color,
                            !.uncolored_nodes = uncolored_nodes,
                            !.neighbor_colors_used = used,
                            !.saturation = [nbr \in DOMAIN @ |->
                                IF nbr \in graph[current_node] /\ nbr \in uncolored_nodes
                                   /\ c \notin loc.neighbor_colors_used[nbr]
                                THEN Cardinality(used[nbr]) ELSE @[nbr]],
                            !.steps = Append(@, color)]
    /\ UNCHANGED <<alg, graph, initial_assignment, pc, result>>

\* no node is uncolored
dsatur_coloring_return ==
    /\ alg = "dsatur" /\ pc = "run"
    /\ loc.uncolored_nodes = {}
    /\ LET max_color == Max(Values(loc.color))
       IN  result' = [algorithmResultTemplate EXCEPT
                        !.status = "returned",
                        !.k = max_color,
                        !.chromatic_number = max_color,
                        !.steps = loc.steps,
                        !.coloring = loc.color]
    /\ pc' = "done"
    /\ UNCHANGED <<alg, graph, initial_assignment, loc>>

NextDsatur ==
    \/ dsatur_coloring_init
    \/ dsatur_coloring_step
    \/ dsatur_coloring_return

---------------------------------------------------------------------------
(* recursiveLargestFirst.py *)

\* neighbors_in_set(v, some_set)
neighbors_in_set(v, some_set) == Cardinality(graph[v] \cap some_set)

\* move_to_blocked taking all of Q
move_to_blocked_all(w, uncolored, Q) == Q

\* move_to_blocked left empty: the neighbours of w stay in Q
move_to_blocked_none(w, uncolored, Q) == {}

\* move_to_blocked: the uncolored neighbours of w that are in Q
move_to_blocked(w, uncolored, Q) == (graph[w] \cap uncolored) \cap Q

\* rlf_coloring up to its main loop
rlf_coloring_init ==
    /\ alg = "rlf" /\ pc = "start"
    /\ IF SelfLoopCheck(graph)
       THEN /\ result' = ReturnNone
            /\ pc' = "done"
            /\ UNCHANGED loc
       ELSE IF Nodes(graph) = {}
       THEN /\ result' = [algorithmResultTemplate EXCEPT
                             !.status = "returned", !.chromatic_number = 0, !.k = 0]
            /\ pc' = "done"
            /\ UNCHANGED loc
       ELSE /\ loc' = [color |-> [node \in Nodes(graph) |-> 0],
                       uncolored |-> Nodes(graph),
                       current_color |-> 0,
                       P |-> {}, Q |-> {},
                       steps |-> <<>>]
            /\ pc' = "run"
            /\ UNCHANGED result
    /\ UNCHANGED <<alg, graph, initial_assignment>>

\* one pass of the main loop up to the inner loop: a new color, its seed, P and Q
rlf_coloring_seed ==
    /\ alg = "rlf" /\ pc = "run"
    /\ loc.Q = {} /\ loc.uncolored # {}
    /\ LET key == [v \in loc.uncolored |-> neighbors_in_set(v, loc.uncolored)]
       IN  \E seed \in ArgMax(loc.uncolored, key) :
              LET current_color == loc.current_color + 1
                  color == [loc.color EXCEPT ![seed] = current_color]
                  uncolored == loc.uncolored \ {seed}
                  P == graph[seed] \cap uncolored
              IN  loc' = [loc EXCEPT
                            !.current_color = current_color,
                            !.color = color,
                            !.uncolored = uncolored,
                            !.P = P,
                            !.Q = uncolored \ P,
                            !.steps = Append(@, color)]
    /\ UNCHANGED <<alg, graph, initial_assignment, pc, result>>

\* one pass of the inner loop: the node of Q most adjacent to P joins the class
rlf_coloring_extend ==
    /\ alg = "rlf" /\ pc = "run"
    /\ loc.Q # {}
    /\ LET key == [v \in loc.Q |-> neighbors_in_set(v, loc.P)]
       IN  \E w \in ArgMax(loc.Q, key) :
              LET color == [loc.color EXCEPT ![w] = loc.current_color]
                  uncolored == loc.uncolored \ {w}
                  Q == loc.Q \ {w}
                  blocked == move_to_blocked(w, uncolored, Q)
              IN  loc' = [loc EXCEPT
                            !.color = color,
                            !.uncolored = uncolored,
                            !.P = @ \cup blocked,
                            !.Q = Q \ blocked,
                            !.steps = Append(@, color)]
    /\ UNCHANGED <<alg, graph, initial_assignment, pc, result>>

\* no node is uncolored
rlf_coloring_return ==
    /\ alg = "rlf" /\ pc = "run"
    /\ loc.Q = {} /\ loc.uncolored = {}
    /\ result' = [algorithmResultTemplate EXCEPT
                    !.status = "returned",
                    !.chromatic_number = loc.current_color,
                    !.k = loc.current_color,
                    !.steps = loc.steps,
                    !.coloring = loc.color]
    /\ pc' = "done"
    /\ UNCHANGED <<alg, graph, initial_assignment, loc>>

NextRlf ==
    \/ rlf_coloring_init
    \/ rlf_coloring_seed
    \/ rlf_coloring_extend
    \/ rlf_coloring_return

---------------------------------------------------------------------------
(* backtrackDsatur.py *)

\* is_safe(node, color, graph, coloring) of backtrackDsatur.py
dsatur_is_safe(node, color, g, coloring) ==
    \A neighbour \in g[node] :
        (IF neighbour \in DOMAIN coloring THEN coloring[neighbour] ELSE 0) # color

\* a call of backtrack_dsatur_coloring that has not run yet
BdFrame == [next_node |-> 0, c |-> 0, at |-> "entry"]

\* the node the call branches on: max(uncolored, key=(saturation, degree)),
\* uncolored being a list in key order, so the first of the best
backtrack_dsatur_next_node(g, coloring) ==
    LET uncolored == {node \in Nodes(g) : coloring[node] = 0}
        saturation(node) ==
            Cardinality({coloring[neighbor] : neighbor \in {x \in g[node] : coloring[x] # 0}})
        key == [v \in uncolored |-> saturation(v) * (Cardinality(Nodes(g)) + 2) + Degree(g, v)]
    IN  Min(ArgMax(uncolored, key))

\* base_coloring of find_min_k_backtracking_dsatur
base_coloring ==
    [node \in Nodes(graph) |->
        IF initial_assignment.given /\ node \in DOMAIN initial_assignment.map
        THEN initial_assignment.map[node] ELSE 0]

\* the locals of find_min_k_backtracking_dsatur, called with k = k_arg, at the
\* first call of backtrack_dsatur_coloring
find_min_k_backtracking_dsatur_locals(k_arg) ==
    LET max_fixed == MaxValueOr(initial_assignment.map, 1)
        k == IF initial_assignment.given /\ DOMAIN initial_assignment.map # {}
                /\ k_arg < max_fixed
             THEN max_fixed ELSE k_arg
    IN  [coloring |-> base_coloring,
         k |-> k,
         steps_list |-> <<>>,
         stack |-> <<BdFrame>>,
         ret |-> "none"]

\* find_min_k_backtracking_dsatur up to the first call of backtrack_dsatur_coloring; k = 1
find_min_k_backtracking_dsatur_init ==
    /\ alg = "backtracking_dsat" /\ pc = "start"
    /\ loc' = find_min_k_backtracking_dsatur_locals(1)
    /\ pc' = "run"
    /\ UNCHANGED <<alg, graph, initial_assignment, result>>

\* the same for a caller that passes k: loc.k_arg holds the argument
find_min_k_backtracking_dsatur_init_k ==
    /\ alg = "backtracking_dsat" /\ pc = "start"
    /\ loc' = [k_arg |-> loc.k_arg] @@ find_min_k_backtracking_dsatur_locals(loc.k_arg)
    /\ pc' = "run"
    /\ UNCHANGED <<alg, graph, initial_assignment, result>>

\* backtrack_dsatur_coloring: every node is colored, return True
backtrack_dsatur_coloring_base ==
    /\ alg = "backtracking_dsat" /\ pc = "run" /\ loc.stack # <<>> /\ loc.ret = "none"
    /\ BtTop.at = "entry"
    /\ \A node \in Nodes(graph) : loc.coloring[node] # 0
    /\ loc' = [loc EXCEPT !.stack = BtPop, !.ret = "True"]
    /\ UNCHANGED <<alg, graph, initial_assignment, pc, result>>

\* backtrack_dsatur_coloring: the for loop from the color after the last one
\* tried to the next safe color (assign it and recurse) or to its end (return False)
backtrack_dsatur_coloring_try ==
    /\ alg = "backtracking_dsat" /\ pc = "run" /\ loc.stack # <<>> /\ loc.ret = "none"
    /\ IF BtTop.at = "entry"
       THEN {node \in Nodes(graph) : loc.coloring[node] = 0} # {}
       ELSE BtTop.at = "line52"
    /\ LET next_node == IF BtTop.at = "entry"
                        THEN backtrack_dsatur_next_node(graph, loc.coloring)
                        ELSE BtTop.next_node
           safe == {c \in (BtTop.c + 1)..loc.k :
                        dsatur_is_safe(next_node, c, graph, loc.coloring)}
       IN  IF safe # {}
           THEN LET c == Min(safe)
                    coloring == [loc.coloring EXCEPT ![next_node] = c]
                IN  loc' = [loc EXCEPT
                        !.coloring = coloring,
                        !.steps_list = Append(@, coloring),
                        !.stack = Append(BtSetTop([next_node |-> next_node, c |-> c,
                                                   at |-> "line57"]),
                                         BdFrame)]
           ELSE loc' = [loc EXCEPT !.stack = BtPop, !.ret = "False"]
    /\ UNCHANGED <<alg, graph, initial_assignment, pc, result>>

\* backtrack_dsatur_coloring: the recursive call has returned
backtrack_dsatur_coloring_return ==
    /\ alg = "backtracking_dsat" /\ pc = "run" /\ loc.stack # <<>> /\ loc.ret # "none"
    /\ \/ /\ loc.ret = "True"
          /\ loc' = [loc EXCEPT !.stack = BtPop]
       \/ /\ loc.ret = "False"
          /\ LET coloring == [loc.coloring EXCEPT ![BtTop.next_node] = 0]
             IN  loc' = [loc EXCEPT
                        !.coloring = coloring,
                        !.steps_list = Append(@, coloring),
                        !.stack = BtSetTop([BtTop EXCEPT !.at = "line52"]),
                        !.ret = "none"]
    /\ UNCHANGED <<alg, graph, initial_assignment, pc, result>>

\* find_min_k_backtracking_dsatur: the outermost call returned True
find_min_k_backtracking_dsatur_return ==
    /\ alg = "backtracking_dsat" /\ pc = "run" /\ loc.stack = <<>> /\ loc.ret = "True"
    /\ result' = [algorithmResultTemplate EXCEPT
                    !.status = "returned",
                    !.chromatic_number = loc.k,
                    !.k = loc.k,
                    !.steps = Append(loc.steps_list, loc.coloring),
                    !.coloring = loc.coloring]
    /\ pc' = "done"
    /\ UNCHANGED <<alg, graph, initial_assignment, loc>>

\* find_min_k_backtracking_dsatur: the outermost call returned False: k += 1,
\* and the next pass starts from a copy of base_coloring
find_min_k_backtracking_dsatur_next_k ==
    /\ alg = "backtracking_dsat" /\ pc = "run" /\ loc.stack = <<>> /\ loc.ret = "False"
    /\ loc.k < MaxK
    /\ loc' = [loc EXCEPT !.k = @ + 1, !.coloring = base_coloring,
                          !.stack = <<BdFrame>>, !.ret = "none"]
    /\ UNCHANGED <<alg, graph, initial_assignment, pc, result>>

NextBacktrackingDsatur ==
    \/ find_min_k_backtracking_dsatur_init
    \/ backtrack_dsatur_coloring_base
    \/ backtrack_dsatur_coloring_try
    \/ backtrack_dsatur_coloring_return
    \/ find_min_k_backtracking_dsatur_return
    \/ find_min_k_backtracking_dsatur_next_k

---------------------------------------------------------------------------
(* simulatedAnnealing.py *)

\* the colors of the colored neighbours of v
dsatur_used(g, color, v) == {color[nbr] : nbr \in {x \in g[v] : color[x] # 0}}

\* the nodes the main loop of dsatur_coloring may pick next
dsatur_choices(g, color) ==
    LET uncolored == {v \in Nodes(g) : color[v] = 0}
        key == [v \in uncolored |->
                   Cardinality(dsatur_used(g, color, v)) * (Cardinality(Nodes(g)) + 1)
                   + Degree(g, v)]
    IN  ArgMax(uncolored, key)

\* the colorings dsatur_coloring(graph, initial_assignment=None)["coloring"] may
\* be, its main loop being run from the partial coloring color
RECURSIVE dsatur_colorings(_, _)
dsatur_colorings(g, color) ==
    IF \A v \in Nodes(g) : color[v] # 0 THEN {color}
    ELSE UNION {dsatur_colorings(g,
                    [x \in Nodes(g) |-> IF x = v
                                        THEN SmallestColorNotIn(dsatur_used(g, color, v))
                                        ELSE color[x]])
                : v \in dsatur_choices(g, color)}

\* full_conflict_count(solution): the edges whose ends share a color, each once
full_conflict_count(g, solution) ==
    Cardinality({e \in Nodes(g) \X Nodes(g) :
        e[2] \in g[e[1]] /\ e[1] < e[2] /\ solution[e[1]] = solution[e[2]]})

\* color_counts of a solution: color -> the number of nodes that have it
color_counts_of(solution) ==
    [color \in Values(solution) |-> Cardinality({v \in DOMAIN solution : solution[v] = color})]

\* cost = (n + 1) * conflicts + (distinct - 1)
sa_cost(n, conflicts, distinct) == (n + 1) * conflicts + (distinct - 1)

\* the locals of simulated_annealing_coloring before its main loop, the
\* initial solution being current_solution
sa_locals(current_solution) ==
    LET n == Cardinality(Nodes(graph))
        current_conflicts == full_conflict_count(graph, current_solution)
        color_counts == color_counts_of(current_solution)
        current_distinct == Cardinality(DOMAIN color_counts)
        current_cost == sa_cost(n, current_conflicts, current_distinct)
    IN  [n |-> n,
         fixed_nodes |-> IF initial_assignment.given THEN DOMAIN initial_assignment.map ELSE {},
         current_solution |-> current_solution,
         current_conflicts |-> current_conflicts,
         color_counts |-> color_counts,
         current_distinct |-> current_distinct,
         current_cost |-> current_cost,
         best_solution |-> current_solution,
         best_cost |-> current_cost,
         steps |-> <<current_solution>>,
         max_iter |-> 10000 * n,
         iteration |-> 0]

\* the initial solutions: the pinned colors and random.randint(1, max(1, k0))
\* for the other nodes, or a DSATUR coloring when there is no initial_assignment
sa_initial_solutions ==
    IF initial_assignment.given
    THEN LET k0 == MaxValueOr(initial_assignment.map, 1)
             fixed == DOMAIN initial_assignment.map
         IN  {sol \in [Nodes(graph) -> 1..Max({1, k0})] :
                \A node \in Nodes(graph) \cap fixed : sol[node] = initial_assignment.map[node]}
    ELSE dsatur_colorings(graph, [node \in Nodes(graph) |-> 0])

\* simulated_annealing_coloring up to its main loop
simulated_annealing_coloring_init ==
    /\ alg = "simulated_annealing" /\ pc = "start"
    /\ IF SelfLoopCheck(graph)
       THEN /\ result' = ReturnNone
            /\ pc' = "done"
            /\ UNCHANGED loc
       ELSE IF Nodes(graph) = {}
       THEN /\ result' = [algorithmResultTemplate EXCEPT
                             !.status = "returned", !.chromatic_number = 0, !.k = 0]
            /\ pc' = "done"
            /\ UNCHANGED loc
       ELSE /\ \E current_solution \in sa_initial_solutions :
                  loc' = sa_locals(current_solution)
            /\ pc' = "run"
            /\ UNCHANGED result
    /\ UNCHANGED <<alg, graph, initial_assignment>>

\* free_nodes without "- fixed_nodes": every node may be recolored
sa_free_nodes_all == Nodes(graph)

\* free_nodes of one pass of the main loop
sa_free_nodes == Nodes(graph) \ loc.fixed_nodes

\* the nodes the pass may pick: the free nodes in conflict, or else the free nodes
sa_candidates ==
    LET conflict_nodes == {node \in sa_free_nodes :
                             \E nbr \in graph[node] :
                                loc.current_solution[node] = loc.current_solution[nbr]}
    IN  IF conflict_nodes # {} THEN conflict_nodes ELSE sa_free_nodes

\* delta_conflicts with "if node < nbr" alone: the edges to lower nodes are left out
sa_delta_conflicts_one_way(node, old_color, new_color) ==
    Cardinality({nbr \in graph[node] : node < nbr /\ loc.current_solution[nbr] = new_color})
    - Cardinality({nbr \in graph[node] : node < nbr /\ loc.current_solution[nbr] = old_color})

\* delta_conflicts of recoloring node from old_color to new_color
sa_delta_conflicts(node, old_color, new_color) ==
    Cardinality({nbr \in graph[node] : (node < nbr \/ node > nbr)
                                       /\ loc.current_solution[nbr] = new_color})
    - Cardinality({nbr \in graph[node] : (node < nbr \/ node > nbr)
                                         /\ loc.current_solution[nbr] = old_color})

\* delta_distinct without the test on old_color: a color that goes is not counted
sa_delta_distinct_new_only(color_counts, old_color, new_color) ==
    IF new_color \notin DOMAIN color_counts THEN 1 ELSE 0

\* delta_distinct of recoloring a node from old_color to new_color
sa_delta_distinct(color_counts, old_color, new_color) ==
    (IF old_color \in DOMAIN color_counts /\ color_counts[old_color] = 1 THEN 0 - 1 ELSE 0)
    + (IF new_color \notin DOMAIN color_counts THEN 1 ELSE 0)

\* color_counts after an accepted move
sa_update_counts(color_counts, old_color, new_color) ==
    LET dec == [color_counts EXCEPT ![old_color] = @ - 1]
        del == IF dec[old_color] = 0 THEN Del(dec, old_color) ELSE dec
    IN  Put(del, new_color, (IF new_color \in DOMAIN del THEN del[new_color] ELSE 0) + 1)

\* one pass of the main loop: a node, a new color for it, and the move is
\* accepted (always when the cost does not rise, and otherwise when
\* random.random() < exp(-delta_total / T)) or not
simulated_annealing_coloring_step ==
    /\ alg = "simulated_annealing" /\ pc = "run"
    /\ loc.iteration < loc.max_iter /\ loc.iteration < MaxIter
    /\ sa_free_nodes # {}
    /\ \E node \in sa_candidates :
         LET old_color == loc.current_solution[node]
             current_max == Max(Values(loc.current_solution))
         IN  \E new_color \in (1..(current_max + 1)) \ {old_color} :
               LET candidate_conflicts ==
                       loc.current_conflicts + sa_delta_conflicts(node, old_color, new_color)
                   candidate_distinct ==
                       loc.current_distinct
                       + sa_delta_distinct(loc.color_counts, old_color, new_color)
                   candidate_cost == sa_cost(loc.n, candidate_conflicts, candidate_distinct)
                   delta_total == candidate_cost - loc.current_cost
                   current_solution == [loc.current_solution EXCEPT ![node] = new_color]
                   better == candidate_cost < loc.best_cost
               IN  \E accept \in IF delta_total <= 0 THEN {TRUE} ELSE BOOLEAN :
                     loc' = IF accept
                            THEN [loc EXCEPT
                                    !.current_solution = current_solution,
                                    !.current_conflicts = candidate_conflicts,
                                    !.current_distinct = candidate_distinct,
                                    !.current_cost = candidate_cost,
                                    !.color_counts =
                                        sa_update_counts(@, old_color, new_color),
                                    !.best_solution = IF better THEN current_solution ELSE @,
                                    !.best_cost = IF better THEN candidate_cost ELSE @,
                                    !.steps = <<current_solution>>,
                                    !.iteration = @ + 1]
                            ELSE [loc EXCEPT !.iteration = @ + 1]
    /\ UNCHANGED <<alg, graph, initial_assignment, pc, result>>

\* final_solution = current_solution: the last state in place of the best
sa_final_solution_current == loc.current_solution

\* final_solution = best_solution
sa_final_solution == loc.best_solution

\* the main loop is over: every pass is done, or no node is free
simulated_annealing_coloring_return ==
    /\ alg = "simulated_annealing" /\ pc = "run"
    /\ \/ ~(loc.iteration < loc.max_iter /\ loc.iteration < MaxIter)
       \/ sa_free_nodes = {}
    /\ LET final_solution == sa_final_solution
           chromatic_number == Cardinality(Values(final_solution))
       IN  result' = [algorithmResultTemplate EXCEPT
                        !.status = "returned",
                        !.chromatic_number = chromatic_number,
                        !.k = chromatic_number,
                        !.steps = loc.steps,
                        !.coloring = final_solution]
    /\ pc' = "done"
    /\ UNCHANGED <<alg, graph, initial_assignment, loc>>

NextSimulatedAnnealing ==
    \/ simulated_annealing_coloring_init
    \/ simulated_annealing_coloring_step
    \/ simulated_annealing_coloring_return

---------------------------------------------------------------------------
(* simulatedAnnealing2.py *)

\* current_set: the colors in use and, when 1..max has a gap, the first color of the gap
sa2_current_set(current_solution) ==
    LET used == Values(current_solution)
        gaps == (1..Max(used)) \ used
    IN  IF gaps # {} THEN used \cup {Min(gaps)} ELSE used

\* the locals of simulated_annealing_coloring before its main loop
sa2_locals(current_solution) ==
    LET n == Cardinality(Nodes(graph))
        current_conflicts == full_conflict_count(graph, current_solution)
        color_counts == color_counts_of(current_solution)
        current_distinct == Cardinality(DOMAIN color_counts)
        current_cost == sa_cost(n, current_conflicts, current_distinct)
    IN  [n |-> n,
         current_solution |-> current_solution,
         current_conflicts |-> current_conflicts,
         color_counts |-> color_counts,
         current_distinct |-> current_distinct,
         current_cost |-> current_cost,
         best_solution |-> current_solution,
         best_cost |-> current_cost,
         max_iter |-> 10000 * n,
         no_improvement_counter |-> 0,
         iteration |-> 0,
         node |-> NoneVal, old_color |-> NoneVal, current_set |-> {},
         at |-> "line76"]

\* simulated_annealing_coloring up to its main loop: random.randint(1, max_colors)
\* raises ValueError when max_colors = 0
simulated_annealing2_init ==
    /\ alg = "simulated_annealing2" /\ pc = "start"
    /\ IF SelfLoopCheck(graph)
       THEN /\ result' = ReturnNone
            /\ pc' = "done"
            /\ UNCHANGED loc
       ELSE IF Nodes(graph) = {}
       THEN /\ result' = [algorithmResultTemplate EXCEPT
                             !.status = "returned", !.chromatic_number = 0, !.k = 0]
            /\ pc' = "done"
            /\ UNCHANGED loc
       ELSE LET max_colors == Max({Cardinality(graph[node]) : node \in Nodes(graph)})
            IN  IF max_colors = 0
                THEN /\ result' = Raised
                     /\ pc' = "done"
                     /\ UNCHANGED loc
                ELSE /\ \E current_solution \in [Nodes(graph) -> 1..max_colors] :
                           loc' = sa2_locals(current_solution)
                     /\ pc' = "run"
                     /\ UNCHANGED result
    /\ UNCHANGED <<alg, graph, initial_assignment>>

\* one pass of the main loop up to "while new_color == old_color"
simulated_annealing2_pick ==
    /\ alg = "simulated_annealing2" /\ pc = "run" /\ loc.at = "line76"
    /\ loc.iteration < loc.max_iter /\ loc.iteration < MaxIter
    /\ LET conflict_nodes == {node \in Nodes(graph) :
                                \E nbr \in graph[node] :
                                   loc.current_solution[node] = loc.current_solution[nbr]}
       IN  \E node \in IF conflict_nodes # {} THEN conflict_nodes ELSE Nodes(graph) :
              loc' = [loc EXCEPT !.node = node,
                                 !.old_color = loc.current_solution[node],
                                 !.current_set = sa2_current_set(loc.current_solution),
                                 !.at = "line99"]
    /\ UNCHANGED <<alg, graph, initial_assignment, pc, result>>

\* "while new_color == old_color: new_color = random.choice(current_set)" and
\* the rest of the pass; the while loop ends only by drawing a color other
\* than old_color, and when current_set holds none the call stays in it
simulated_annealing2_move ==
    /\ alg = "simulated_annealing2" /\ pc = "run" /\ loc.at = "line99"
    /\ \E new_color \in loc.current_set \ {loc.old_color} :
         LET node == loc.node
             old_color == loc.old_color
             conflict_before == Cardinality({nbr \in graph[node] :
                                    loc.current_solution[nbr] = old_color})
             conflict_after == Cardinality({nbr \in graph[node] :
                                    loc.current_solution[nbr] = new_color})
             candidate_conflicts == loc.current_conflicts + (conflict_after - conflict_before)
             candidate_distinct ==
                 loc.current_distinct + sa_delta_distinct(loc.color_counts, old_color, new_color)
             candidate_cost == sa_cost(loc.n, candidate_conflicts, candidate_distinct)
             delta_total == candidate_cost - loc.current_cost
             current_solution == [loc.current_solution EXCEPT ![node] = new_color]
             better == candidate_cost < loc.best_cost
         IN  \E accept \in IF delta_total <= 0 THEN {TRUE} ELSE BOOLEAN :
               LET no_improvement_counter ==
                       IF accept /\ better THEN 0 ELSE loc.no_improvement_counter + 1
                   at == IF 5 * no_improvement_counter > loc.max_iter
                         THEN "line165" ELSE "line76"
               IN  loc' = IF accept
                          THEN [loc EXCEPT
                                  !.current_solution = current_solution,
                                  !.current_conflicts = candidate_conflicts,
                                  !.current_distinct = candidate_distinct,
                                  !.current_cost = candidate_cost,
                                  !.color_counts = sa_update_counts(@, old_color, new_color),
                                  !.best_solution = IF better THEN current_solution ELSE @,
                                  !.best_cost = IF better THEN candidate_cost ELSE @,
                                  !.no_improvement_counter = no_improvement_counter,
                                  !.iteration = @ + 1,
                                  !.at = at]
                          ELSE [loc EXCEPT
                                  !.no_improvement_counter = no_improvement_counter,
                                  !.iteration = @ + 1,
                                  !.at = at]
    /\ UNCHANGED <<alg, graph, initial_assignment, pc, result>>

\* the main loop is over; the line that sets chromatic_number is a comment
simulated_annealing2_return ==
    /\ alg = "simulated_annealing2" /\ pc = "run"
    /\ \/ loc.at = "line165"
       \/ loc.at = "line76" /\ ~(loc.iteration < loc.max_iter /\ loc.iteration < MaxIter)
    /\ result' = [algorithmResultTemplate EXCEPT
                    !.status = "returned",
                    !.k = Cardinality(Values(loc.best_solution)),
                    !.coloring = loc.best_solution]
    /\ pc' = "done"
    /\ UNCHANGED <<alg, graph, initial_assignment, loc>>

NextSimulatedAnnealing2 ==
    \/ simulated_annealing2_init
    \/ simulated_annealing2_pick
    \/ simulated_annealing2_move
    \/ simulated_annealing2_return

---------------------------------------------------------------------------
(* metropolis.py *)

\* max(len(neighbors) for neighbors in graph.values()), of a non-empty graph
MaxDegree(g) == Max({Degree(g, v) : v \in Nodes(g)})

\* choose_q(graph)
choose_q(g) == 4 * MaxDegree(g) + 1

\* math.log(2 * n) in millionths, rounded down
LnTwice(n) ==
    <<693147, 1386294, 1791759, 2079441, 2302585, 2484906, 2639057, 2772588>>[n]

\* T = math.ceil(q * n * math.log(2 * n) / (q - 4 * Delta)), never a whole quotient
metropolis_T(q, n, Delta) == ((q * n * LnTwice(n)) \div (1000000 * (q - 4 * Delta))) + 1

\* the greedy initial coloring f0: the for loop over the nodes from node v on
RECURSIVE metropolis_seed(_, _, _, _)
metropolis_seed(g, q, v, f) ==
    IF v > Cardinality(Nodes(g)) THEN f
    ELSE LET used_colors == {f[nbr] : nbr \in g[v] \cap DOMAIN f}
             free == {color \in 1..q : color \notin used_colors}
         IN  metropolis_seed(g, q, v + 1, IF free # {} THEN Put(f, v, Min(free)) ELSE f)

\* metropolis_coloring up to its main loop
metropolis_coloring_init ==
    /\ alg = "metropolis" /\ pc = "start"
    /\ IF Nodes(graph) = {}
       THEN \* choose_q: max() of an empty sequence
            /\ result' = Raised
            /\ pc' = "done"
            /\ UNCHANGED loc
       ELSE IF SelfLoopCheck(graph)
       THEN /\ result' = Raised
            /\ pc' = "done"
            /\ UNCHANGED loc
       ELSE LET q == choose_q(graph)
                n == Cardinality(Nodes(graph))
                Delta == MaxDegree(graph)
                f == metropolis_seed(graph, q, 1, EmptyDict)
            IN  IF q <= 4 * Delta
                THEN /\ result' = Raised
                     /\ pc' = "done"
                     /\ UNCHANGED loc
                ELSE /\ loc' = [q |-> q, T |-> metropolis_T(q, n, Delta), f |-> f,
                                steps |-> <<f>>, t |-> 1]
                     /\ pc' = "run"
                     /\ UNCHANGED result
    /\ UNCHANGED <<alg, graph, initial_assignment>>

\* the recolor applied whatever the neighbours hold
metropolis_accept_any(v, c) == TRUE

\* "if c not in neighbor_colors": no neighbour of v holds the color c
metropolis_accept(v, c) ==
    LET neighbor_colors_v == {loc.f[nbr] : nbr \in graph[v]}
    IN  c \notin neighbor_colors_v

\* one pass of the main loop: a random node and a random color
metropolis_coloring_step ==
    /\ alg = "metropolis" /\ pc = "run"
    /\ loc.t <= loc.T /\ loc.t <= MaxIter
    /\ \E v \in Nodes(graph), c \in 1..loc.q :
         LET f == IF metropolis_accept(v, c) THEN [loc.f EXCEPT ![v] = c] ELSE loc.f
         IN  loc' = [loc EXCEPT !.f = f, !.steps = <<f>>, !.t = @ + 1]
    /\ UNCHANGED <<alg, graph, initial_assignment, pc, result>>

\* the main loop is over
metropolis_coloring_return ==
    /\ alg = "metropolis" /\ pc = "run"
    /\ ~(loc.t <= loc.T /\ loc.t <= MaxIter)
    /\ result' = [algorithmResultTemplate EXCEPT
                    !.status = "returned",
                    !.k = Cardinality(Values(loc.f)),
                    !.steps = loc.steps,
                    !.coloring = loc.f,
                    !.chromatic_number = NoneVal]
    /\ pc' = "done"
    /\ UNCHANGED <<alg, graph, initial_assignment, loc>>

NextMetropolis ==
    \/ metropolis_coloring_init
    \/ metropolis_coloring_step
    \/ metropolis_coloring_return

---------------------------------------------------------------------------
(* genetic.py *)

\* choose_q(graph) of genetic.py, of a non-empty graph
genetic_choose_q(g) == MaxDegree(g) + 1

\* compute_conflicts(coloring): the edges (v, nbr), nbr > v, whose ends share a color
compute_conflicts(g, coloring) ==
    Cardinality({e \in Nodes(g) \X Nodes(g) :
        e[2] \in g[e[1]] /\ e[2] > e[1] /\ coloring[e[1]] = coloring[e[2]]})

\* distinct_colors(coloring)
distinct_colors(coloring) == Cardinality(Values(coloring))

\* cost(coloring) = (n + 1) * conflicts + (distinct_colors - 1)
cost(g, coloring) ==
    (Cardinality(Nodes(g)) + 1) * compute_conflicts(g, coloring) + (distinct_colors(coloring) - 1)

\* math.inf: above every cost
math_inf == 1000000

\* compute_node_conflicts(node, coloring)
compute_node_conflicts(g, node, coloring) ==
    Cardinality({nbr \in g[node] : coloring[nbr] = coloring[node]})

\* local_search: the color the node ends with, the first of range(1, q + 1)
\* with the fewest conflicts when that is fewer than it has
local_search_color(g, q, node, individual) ==
    LET current_color == individual[node]
        current_local == compute_node_conflicts(g, node, individual)
        new_local == [color \in 1..q |->
                         compute_node_conflicts(g, node, [individual EXCEPT ![node] = color])]
        better == {color \in (1..q) \ {current_color} : new_local[color] < current_local}
    IN  IF better = {} THEN current_color
        ELSE Min({color \in better : \A d \in better : new_local[color] <= new_local[d]})

\* local_search: the for loop over the nodes from node on
RECURSIVE local_search_pass(_, _, _, _)
local_search_pass(g, q, node, individual) ==
    IF node > Cardinality(Nodes(g)) THEN individual
    ELSE local_search_pass(g, q, node + 1,
             [individual EXCEPT ![node] = local_search_color(g, q, node, individual)])

\* local_search(individual, max_iter=5): the while loop from iter_count on
RECURSIVE local_search(_, _, _, _)
local_search(g, q, individual, iter_count) ==
    IF iter_count >= 5 THEN individual
    ELSE LET next == local_search_pass(g, q, 1, individual)
         IN  IF next = individual THEN individual
             ELSE local_search(g, q, next, iter_count + 1)

\* tournament_selection(pop, k=3): the fittest of three members drawn at random
tournament_selection(g, pop) ==
    {pop[i] : i \in {j \in DOMAIN pop :
        \E selected \in SUBSET DOMAIN pop :
            /\ Cardinality(selected) = 3
            /\ j \in selected
            /\ \A m \in selected : cost(g, pop[j]) <= cost(g, pop[m])}}

\* informed_crossover(parent1, parent2): the children it may return
informed_crossover(g, parent1, parent2) ==
    LET local_conflicts(parent, node) ==
            Cardinality({nbr \in g[node] : parent[nbr] = parent[node]})
        choice(node) ==
            IF parent1[node] = parent2[node] THEN {parent1[node]}
            ELSE IF local_conflicts(parent1, node) < local_conflicts(parent2, node)
            THEN {parent1[node]}
            ELSE IF local_conflicts(parent2, node) < local_conflicts(parent1, node)
            THEN {parent2[node]}
            ELSE {parent1[node], parent2[node]}
    IN  {child \in [Nodes(g) -> Values(parent1) \cup Values(parent2)] :
            \A node \in Nodes(g) : child[node] \in choice(node)}

\* crossover(parent1, parent2): copies of the parents, or two informed children
crossover(g, parent1, parent2) ==
    {<<parent1, parent2>>}
    \cup (informed_crossover(g, parent1, parent2) \X informed_crossover(g, parent2, parent1))

\* mutate: what a node in conflict may become when it is mutated, the random
\* candidate color being any of 1..q and the set candidate_colors being read in
\* any order
mutate_node(g, q, node, individual) ==
    LET current_color == individual[node]
        current_local == compute_node_conflicts(g, node, individual)
        new_local == [color \in 1..q |->
                         compute_node_conflicts(g, node, [individual EXCEPT ![node] = color])]
    IN  UNION {LET candidate_colors ==
                       {individual[nbr] : nbr \in g[node]} \cup {current_color, r}
                   better == {color \in candidate_colors \ {current_color} :
                                 new_local[color] < current_local}
                   best == {color \in better : \A d \in better : new_local[color] <= new_local[d]}
               IN  IF better = {} THEN {individual}
                   ELSE {[individual EXCEPT ![node] = best_color] : best_color \in best}
               : r \in 1..q}

\* mutate(individual): the for loop over the nodes from node on
RECURSIVE mutate(_, _, _, _)
mutate(g, q, node, individual) ==
    IF node > Cardinality(Nodes(g)) THEN {individual}
    ELSE IF \E nbr \in g[node] : individual[node] = individual[nbr]
    THEN mutate(g, q, node + 1, individual)
         \cup UNION {mutate(g, q, node + 1, m) : m \in mutate_node(g, q, node, individual)}
    ELSE mutate(g, q, node + 1, individual)

\* mutate(child) and then local_search(child, max_iter=5): what a child may become
genetic_improve(g, q, child) == {local_search(g, q, m, 0) : m \in mutate(g, q, 1, child)}

\* one pass of "while len(new_population) < population_size": the pairs
\* (child1, child2) it may make
genetic_children(g, q, population) ==
    LET parents == tournament_selection(g, population)
        crossed == UNION {crossover(g, pp[1], pp[2]) : pp \in parents \X parents}
    IN  UNION {genetic_improve(g, q, c[1]) \X genetic_improve(g, q, c[2]) : c \in crossed}

\* "for ind in population: ...": the best cost and individual after the members
\* from i on have been looked at
RECURSIVE genetic_evaluate(_, _, _, _)
genetic_evaluate(g, population, i, best) ==
    IF i > Len(population) THEN best
    ELSE LET current_cost_val == cost(g, population[i])
         IN  genetic_evaluate(g, population, i + 1,
                 IF current_cost_val < best.best_cost_val
                 THEN [best_cost_val |-> current_cost_val,
                       best_individual |-> SomeDict(population[i])]
                 ELSE best)

\* the elite takes the place of the worst of new_population when it costs less
genetic_elitism(g, new_population, elite) ==
    LET worst_at == Min({i \in DOMAIN new_population :
                        \A j \in DOMAIN new_population :
                            cost(g, new_population[j]) <= cost(g, new_population[i])})
        worst == new_population[worst_at]
        index == Min({i \in DOMAIN new_population : new_population[i] = worst})
    IN  IF cost(g, elite) < cost(g, worst)
        THEN [new_population EXCEPT ![index] = elite]
        ELSE new_population

\* heuristic_solution: greedy_coloring takes no initial_assignment, so the call
\* at line 114 raises TypeError, which "except Exception" turns into None
genetic_heuristic_solution(g) == NoneDict

\* the populations the seeding may build: the heuristic solution, then
\* heuristic_count - 1 copies of it with some nodes redrawn from 1..q, then
\* random colorings; with heuristic_solution None, random colorings only
genetic_populations(g, q) ==
    LET heuristic_solution == genetic_heuristic_solution(g)
        heuristic_count == Max({1, (2 * population_size) \div 10})
        random_colorings == [Nodes(g) -> 1..q]
    IN  IF heuristic_solution.given
        THEN {population \in [1..population_size ->
                                 random_colorings \cup {heuristic_solution.map}] :
                /\ population[1] = heuristic_solution.map
                /\ \A i \in 2..heuristic_count : \A node \in Nodes(g) :
                      population[i][node] \in 1..q \cup {heuristic_solution.map[node]}
                /\ \A i \in (heuristic_count + 1)..population_size :
                      population[i] \in random_colorings}
        ELSE [1..population_size -> random_colorings]

\* genetic_coloring up to its main loop: q = choose_q(graph), and, the seeding
\* by greedy_coloring(..., initial_assignment=None) ending in a TypeError that
\* is caught, a population of random colorings
genetic_coloring_init ==
    /\ alg = "ga_coloring" /\ pc = "start"
    /\ IF Nodes(graph) = {}
       THEN \* choose_q: max() of an empty sequence
            /\ result' = Raised
            /\ pc' = "done"
            /\ UNCHANGED loc
       ELSE LET q == genetic_choose_q(graph)
            IN  /\ \E max_generations \in 1..MaxGenerations :
                   \E population \in genetic_populations(graph, q) :
                      loc' = [q |-> q,
                              max_generations |-> max_generations,
                              population |-> population,
                              new_population |-> <<>>,
                              steps |-> <<>>,
                              best_individual |-> NoneDict,
                              best_cost_val |-> math_inf,
                              generation |-> 0,
                              at |-> "evaluate"]
                /\ pc' = "run"
                /\ UNCHANGED result
    /\ UNCHANGED <<alg, graph, initial_assignment>>

\* a generation begins: the population is evaluated and the best is recorded
genetic_coloring_evaluate ==
    /\ alg = "ga_coloring" /\ pc = "run" /\ loc.at = "evaluate"
    /\ loc.generation < loc.max_generations
    /\ LET best == genetic_evaluate(graph, loc.population, 1,
                       [best_cost_val |-> loc.best_cost_val,
                        best_individual |-> loc.best_individual])
       IN  loc' = [loc EXCEPT !.best_cost_val = best.best_cost_val,
                              !.best_individual = best.best_individual,
                              !.steps = Append(@, best.best_individual.map),
                              !.new_population = <<>>,
                              !.at = "offspring"]
    /\ UNCHANGED <<alg, graph, initial_assignment, pc, result>>

\* one pass of the while loop: two children, the second dropped when the new
\* population is full
genetic_coloring_offspring ==
    /\ alg = "ga_coloring" /\ pc = "run" /\ loc.at = "offspring"
    /\ Len(loc.new_population) < population_size
    /\ \E children \in genetic_children(graph, loc.q, loc.population) :
         LET with1 == Append(loc.new_population, children[1])
         IN  loc' = [loc EXCEPT !.new_population =
                        IF Len(with1) < population_size
                        THEN Append(with1, children[2]) ELSE with1]
    /\ UNCHANGED <<alg, graph, initial_assignment, pc, result>>

\* the generation ends: elitism, and the new population replaces the old
genetic_coloring_replace ==
    /\ alg = "ga_coloring" /\ pc = "run" /\ loc.at = "offspring"
    /\ Len(loc.new_population) >= population_size
    /\ loc' = [loc EXCEPT
                  !.population = genetic_elitism(graph, loc.new_population,
                                                 loc.best_individual.map),
                  !.new_population = <<>>,
                  !.generation = @ + 1,
                  !.at = "evaluate"]
    /\ UNCHANGED <<alg, graph, initial_assignment, pc, result>>

\* the main loop is over
genetic_coloring_return ==
    /\ alg = "ga_coloring" /\ pc = "run" /\ loc.at = "evaluate"
    /\ ~(loc.generation < loc.max_generations)
    /\ result' = [algorithmResultTemplate EXCEPT
                    !.status = "returned",
                    !.k = Cardinality(Values(loc.best_individual.map)),
                    !.steps = loc.steps,
                    !.coloring = loc.best_individual.map,
                    !.chromatic_number = NoneVal]
    /\ pc' = "done"
    /\ UNCHANGED <<alg, graph, initial_assignment, loc>>

NextGenetic ==
    \/ genetic_coloring_init
    \/ genetic_coloring_evaluate
    \/ genetic_coloring_offspring
    \/ genetic_coloring_replace
    \/ genetic_coloring_return

---------------------------------------------------------------------------
(* chromaticPolynomial.py *)

\* contract_edge(adj_list, u, v)
contract_edge(adj_list, u, v) ==
    [node \in DOMAIN adj_list \ {v} |->
        LET merged == IF node = u
                      THEN (adj_list[u] \cup (adj_list[v] \ {u})) \ {u}
                      ELSE adj_list[node]
        IN  {IF x = v THEN u ELSE x : x \in merged} \ {node}]

\* a neighbour list as the number of times each node occurs in it
ListOf(S, V) == [x \in V |-> IF x \in S THEN 1 ELSE 0]

\* list(set(neighbors))
list_set(neighbors) == [x \in DOMAIN neighbors |-> IF neighbors[x] > 0 THEN 1 ELSE 0]

\* "if node in neighbors: neighbors.remove(node)": the first occurrence goes
list_remove(neighbors, node) ==
    [x \in DOMAIN neighbors |->
        IF x = node /\ neighbors[x] > 0 THEN neighbors[x] - 1 ELSE neighbors[x]]

\* the list left as it is: the references to v stay
list_rewrite_none(neighbors, u, v) == neighbors

\* [u if x == v else x for x in neighbors]
list_rewrite(neighbors, u, v) ==
    [x \in DOMAIN neighbors |->
        IF x = v THEN 0
        ELSE IF x = u THEN neighbors[u] + neighbors[v]
        ELSE neighbors[x]]

\* contract_edge(adj_list, u, v) on neighbour lists, statement by statement
contract_edge_lists(adj_list, u, v) ==
    LET V == DOMAIN adj_list
        copied == [node \in V \ {v} |-> adj_list[node]]
        appended == [copied EXCEPT ![u] =
                        [x \in V |-> @[x] + (IF x # u THEN adj_list[v][x] ELSE 0)]]
        merged == [appended EXCEPT ![u] = list_remove(list_set(@), u)]
    IN  [neighbor \in V \ {v} |->
            list_remove(list_set(list_rewrite(merged[neighbor], u, v)), neighbor)]

\* adj_list after the call: contract_edge works on "neighbors.copy()", so no
\* statement reaches a list of the caller
contract_edge_input_after(adj_list, u, v) == adj_list

\* a call of contract_edge(adj_list, u, v) on an edge (u, v) of graph
contract_edge_call ==
    /\ alg = "contract_edge" /\ pc = "start"
    /\ \E u \in Nodes(graph) : \E v \in graph[u] :
          LET adj_list == [node \in Nodes(graph) |-> ListOf(graph[node], Nodes(graph))]
          IN  loc' = [u |-> u, v |-> v,
                      adj_list |-> contract_edge_input_after(adj_list, u, v),
                      adj_list_contracted |-> contract_edge_lists(adj_list, u, v),
                      contracted |-> contract_edge(graph, u, v)]
    /\ pc' = "done"
    /\ UNCHANGED <<alg, graph, initial_assignment, result>>

NextContract == contract_edge_call

\* adj_list_deleted: the copy with the edge (u, v) removed
delete_edge(adj_list, u, v) ==
    [node \in DOMAIN adj_list |->
        IF node = u THEN adj_list[u] \ {v}
        ELSE IF node = v THEN adj_list[v] \ {u}
        ELSE adj_list[node]]

\* the padding put after the coefficients: coeffs + [0] * (max_degree - degree)
pad_coeffs_right(coeffs, max_degree) ==
    [i \in 1..(max_degree + 1) |-> IF i <= Len(coeffs) THEN coeffs[i] ELSE 0]

\* [0] * (max_degree - degree) + coeffs
pad_coeffs(coeffs, max_degree) ==
    [i \in 1..(max_degree + 1) |->
        LET shift == (max_degree + 1) - Len(coeffs)
        IN  IF i <= shift THEN 0 ELSE coeffs[i - shift]]

\* the same with the two polynomials added
add_coeffs(coeffs_deleted, coeffs_contracted) ==
    LET max_degree == Max({Len(coeffs_contracted) - 1, Len(coeffs_deleted) - 1})
        c == pad_coeffs(coeffs_contracted, max_degree)
        d == pad_coeffs(coeffs_deleted, max_degree)
    IN  [i \in 1..(max_degree + 1) |-> d[i] + c[i]]

\* [d - c for c, d in zip(coeffs_contracted, coeffs_deleted)] after the padding
subtract_coeffs(coeffs_deleted, coeffs_contracted) ==
    LET max_degree == Max({Len(coeffs_contracted) - 1, Len(coeffs_deleted) - 1})
        c == pad_coeffs(coeffs_contracted, max_degree)
        d == pad_coeffs(coeffs_deleted, max_degree)
    IN  [i \in 1..(max_degree + 1) |-> d[i] - c[i]]

\* the first node, in key order, whose neighbour list is not empty
first_with_neighbors(adj_list) == Min({node \in DOMAIN adj_list : adj_list[node] # {}})

\* compute_chromatic_polynomial(adj_list): the coefficient lists it may return,
\* v = neighbors[0] being any neighbour of u, as the order of the list decides
RECURSIVE compute_chromatic_polynomial(_)
compute_chromatic_polynomial(adj_list) ==
    IF SelfLoopCheck(adj_list) THEN {<<0>>}
    ELSE IF \A node \in DOMAIN adj_list : adj_list[node] = {}
    THEN {[i \in 1..(Cardinality(DOMAIN adj_list) + 1) |-> IF i = 1 THEN 1 ELSE 0]}
    ELSE LET u == first_with_neighbors(adj_list)
         IN  UNION {
               LET coeffs_deleted == compute_chromatic_polynomial(delete_edge(adj_list, u, v))
                   coeffs_contracted == compute_chromatic_polynomial(contract_edge(adj_list, u, v))
               IN  {subtract_coeffs(d, c) : d \in coeffs_deleted, c \in coeffs_contracted}
               : v \in adj_list[u]}

\* evaluate_chromatic_polynomial(coefficients, k): Horner's method, from the
\* i-th coefficient on
RECURSIVE horner(_, _, _, _)
horner(coefficients, k, i, acc) ==
    IF i > Len(coefficients) THEN acc
    ELSE horner(coefficients, k, i + 1, acc * k + coefficients[i])

evaluate_chromatic_polynomial(coefficients, k) == horner(coefficients, k, 1, 0)

\* a call of compute_chromatic_polynomial(graph)
compute_chromatic_polynomial_call ==
    /\ alg = "deletion_contraction" /\ pc = "start"
    /\ \E coeffs \in compute_chromatic_polynomial(graph) :
          loc' = [coefficients |-> coeffs, k |-> NoneVal, Pk |-> 0]
    /\ pc' = "run"
    /\ UNCHANGED <<alg, graph, initial_assignment, result>>

\* a call of evaluate_chromatic_polynomial(coefficients, k)
evaluate_chromatic_polynomial_call ==
    /\ alg = "deletion_contraction" /\ pc = "run"
    /\ \E k \in 0..MaxX :
          loc' = [loc EXCEPT !.k = k, !.Pk = evaluate_chromatic_polynomial(loc.coefficients, k)]
    /\ UNCHANGED <<alg, graph, initial_assignment, pc, result>>

NextPolynomial ==
    \/ compute_chromatic_polynomial_call
    \/ evaluate_chromatic_polynomial_call

\* "if Pk > 0" and, before it, the comparison that also takes a zero value
positive_value_or_zero(Pk) == Pk >= 0

positive_value(Pk) == Pk > 0

\* compute_chromatic_number(coefficients, max_k) on the polynomial of graph, as
\* /get-chromatic-polynomial calls it (max_k = None) or with a bound of the caller
compute_chromatic_number_call ==
    /\ alg = "compute_chromatic_number" /\ pc = "start"
    /\ \E coeffs \in compute_chromatic_polynomial(graph) :
       \E max_k \in {NoneVal} \cup 0..MaxX :
          loc' = [coefficients |-> coeffs,
                  max_k |-> IF max_k = NoneVal THEN Len(coeffs) ELSE max_k,
                  k |-> 1,
                  polynomial_evaluation |-> <<>>]
    /\ pc' = "run"
    /\ UNCHANGED <<alg, graph, initial_assignment, result>>

\* one pass of "for k in range(1, max_k + 1)"
compute_chromatic_number_scan ==
    /\ alg = "compute_chromatic_number" /\ pc = "run"
    /\ loc.k <= loc.max_k
    /\ LET Pk == evaluate_chromatic_polynomial(loc.coefficients, loc.k)
           polynomial_evaluation == Append(loc.polynomial_evaluation, Pk)
       IN  IF positive_value(Pk)
           THEN /\ loc' = [loc EXCEPT !.polynomial_evaluation = polynomial_evaluation]
                /\ result' = [algorithmResultTemplate EXCEPT
                                 !.status = "returned", !.chromatic_number = loc.k]
                /\ pc' = "done"
           ELSE /\ loc' = [loc EXCEPT !.polynomial_evaluation = polynomial_evaluation,
                                      !.k = loc.k + 1]
                /\ UNCHANGED <<result, pc>>
    /\ UNCHANGED <<alg, graph, initial_assignment>>

\* the range is exhausted: raise ValueError
compute_chromatic_number_raise ==
    /\ alg = "compute_chromatic_number" /\ pc = "run"
    /\ loc.k > loc.max_k
    /\ result' = Raised
    /\ pc' = "done"
    /\ UNCHANGED <<alg, graph, initial_assignment, loc>>

NextChromaticNumber ==
    \/ compute_chromatic_number_call
    \/ compute_chromatic_number_scan
    \/ compute_chromatic_number_raise

---------------------------------------------------------------------------
(* utils/validation.py *)

\* "return True"
ReturnTrue == [algorithmResultTemplate EXCEPT !.status = "True"]

\* "return jsonify({'message': ...}), 400"
Return400 == [algorithmResultTemplate EXCEPT !.status = "400"]

\* validate_graph(graph), "if graph is None"
validate_graph_none ==
    /\ alg = "validate_graph" /\ pc = "start"
    /\ loc.graph_is = "None"
    /\ result' = Return400
    /\ pc' = "done"
    /\ UNCHANGED <<alg, graph, initial_assignment, loc>>

\* "if not isinstance(graph, dict)": the argument of jsonify is the set
\* {"message" "Graph must be a dictionary"}, which jsonify cannot serialize
validate_graph_not_dict ==
    /\ alg = "validate_graph" /\ pc = "start"
    /\ loc.graph_is = "not_dict"
    /\ result' = Raised
    /\ pc' = "done"
    /\ UNCHANGED <<alg, graph, initial_assignment, loc>>

\* "for node, neighbours in graph.items(): if not isinstance(neighbours, list)",
\* then "return True"
validate_graph_neighbours ==
    /\ alg = "validate_graph" /\ pc = "start"
    /\ loc.graph_is = "dict"
    /\ result' = IF \E node \in Nodes(graph) : node \in loc.not_a_list
                 THEN Return400
                 ELSE ReturnTrue
    /\ pc' = "done"
    /\ UNCHANGED <<alg, graph, initial_assignment, loc>>

NextValidate ==
    \/ validate_graph_none
    \/ validate_graph_not_dict
    \/ validate_graph_neighbours

---------------------------------------------------------------------------
(* The specifications. *)

\* the state at the call: nothing has run
Start ==
    /\ pc = "start"
    /\ loc = EmptyDict
    /\ result = algorithmResultTemplate

\* graph is a loop-free graph of at most N nodes
SimpleGraphInput(N) == \E n \in 0..N : graph \in SimpleGraphs(n)

\* graph is a graph of at most N nodes with a self-loop
LoopGraphInput(N) == \E n \in 1..N : graph \in LoopGraphs(n)

\* the loop-free graphs the heuristics run on, and small graphs with loops
HeuristicInputs ==
    /\ SimpleGraphInput(MaxRandN) \/ LoopGraphInput(MaxLoopN)
    /\ initial_assignment = NoAssignment

\* the pinned runs: small loop-free graphs with some nodes pinned
PinnedInputs ==
    /\ SimpleGraphInput(MaxPinN)
    /\ initial_assignment \in Assignments(graph, MaxPinColor)

\* every loop-free graph of at most MaxN nodes and one larger graph without
\* pins, small graphs with loops, small graphs with pins
ExactInputs ==
    \/ /\ SimpleGraphInput(MaxN) \/ graph = TenNodeGraph \/ LoopGraphInput(MaxLoopN)
       /\ initial_assignment = NoAssignment
    \/ PinnedInputs

InitBacktracking == alg = "backtracking" /\ ExactInputs /\ Start

SpecBacktracking == InitBacktracking /\ [][NextBacktracking]_vars

InitBranchAndBound == alg = "branch_and_bound" /\ ExactInputs /\ Start

SpecBranchAndBound == InitBranchAndBound /\ [][NextBranchAndBound]_vars

InitGreedy ==
    /\ alg \in {"greedy", "welsh_powell", "greedy_bfs"}
    /\ HeuristicInputs
    /\ Start

SpecGreedy == InitGreedy /\ [][NextGreedy]_vars

InitDsatur == alg = "dsatur" /\ (HeuristicInputs \/ PinnedInputs) /\ Start

SpecDsatur == InitDsatur /\ [][NextDsatur]_vars

InitRlf == alg = "rlf" /\ HeuristicInputs /\ Start

SpecRlf == InitRlf /\ [][NextRlf]_vars

InitBacktrackingDsatur == alg = "backtracking_dsat" /\ ExactInputs /\ Start

SpecBacktrackingDsatur == InitBacktrackingDsatur /\ [][NextBacktrackingDsatur]_vars

\* the sampler: small graphs, with and without loops
MetropolisInputs ==
    /\ SimpleGraphInput(MaxSaN) \/ LoopGraphInput(MaxLoopN)
    /\ initial_assignment = NoAssignment

\* simulated annealing: the same, and the pinned runs
SaInputs == MetropolisInputs \/ PinnedInputs

InitSimulatedAnnealing == alg = "simulated_annealing" /\ SaInputs /\ Start

SpecSimulatedAnnealing == InitSimulatedAnnealing /\ [][NextSimulatedAnnealing]_vars

InitMetropolis == alg = "metropolis" /\ MetropolisInputs /\ Start

SpecMetropolis == InitMetropolis /\ [][NextMetropolis]_vars

\* the genetic algorithm: small graphs, with and without loops
GeneticInputs ==
    /\ SimpleGraphInput(MaxGaN) \/ LoopGraphInput(MaxGaLoopN)
    /\ initial_assignment = NoAssignment

InitGenetic == alg = "ga_coloring" /\ GeneticInputs /\ Start

SpecGenetic == InitGenetic /\ [][NextGenetic]_vars

PolynomialInputs ==
    /\ SimpleGraphInput(MaxPolyN) \/ LoopGraphInput(MaxLoopN)
    /\ initial_assignment = NoAssignment

InitPolynomial == alg = "deletion_contraction" /\ PolynomialInputs /\ Start

SpecPolynomial == InitPolynomial /\ [][NextPolynomial]_vars

InitChromaticNumber == alg = "compute_chromatic_number" /\ PolynomialInputs /\ Start

SpecChromaticNumber == InitChromaticNumber /\ [][NextChromaticNumber]_vars

InitSimulatedAnnealing2 == alg = "simulated_annealing2" /\ MetropolisInputs /\ Start

\* both versions of simulated annealing; a call that has a step to take takes it
InitAnnealing == InitSimulatedAnnealing \/ InitSimulatedAnnealing2

NextAnnealing == NextSimulatedAnnealing \/ NextSimulatedAnnealing2

SpecAnnealingFair == InitAnnealing /\ [][NextAnnealing]_vars /\ WF_vars(NextAnnealing)

\* the arguments of contract_edge: a loop-free graph with an edge
InitContract ==
    /\ alg = "contract_edge"
    /\ SimpleGraphInput(MaxPolyN)
    /\ \E node \in Nodes(graph) : graph[node] # {}
    /\ initial_assignment = NoAssignment
    /\ Start

SpecContract == InitContract /\ [][NextContract]_vars

\* the argument of validate_graph: None, a value that is not a dict, or a dict
\* whose values are neighbour lists (graph) but for the keys in not_a_list
InitValidate ==
    /\ alg = "validate_graph"
    /\ initial_assignment = NoAssignment
    /\ pc = "start"
    /\ result = algorithmResultTemplate
    /\ \/ /\ graph = EmptyDict
          /\ \E graph_is \in {"None", "not_dict"} :
                loc = [graph_is |-> graph_is, not_a_list |-> {}]
       \/ /\ SimpleGraphInput(MaxValN) \/ LoopGraphInput(MaxLoopN)
          /\ \E not_a_list \in SUBSET Nodes(graph) :
                loc = [graph_is |-> "dict", not_a_list |-> not_a_list]

SpecValidate == InitValidate /\ [][NextValidate]_vars

\* a call, with pins, of one of the algorithms that take an initial_assignment
\* and keep it fixed
InitPinned ==
    /\ alg \in {"dsatur", "backtracking", "backtracking_dsat", "simulated_annealing"}
    /\ PinnedInputs
    /\ Start

NextPinned ==
    \/ NextDsatur
    \/ NextBacktracking
    \/ NextBacktrackingDsatur
    \/ NextSimulatedAnnealing

SpecPinned == InitPinned /\ [][NextPinned]_vars

\* a call of any of the coloring algorithms
InitColoring ==
    \/ InitBacktracking
    \/ InitBranchAndBound
    \/ InitGreedy
    \/ InitDsatur
    \/ InitRlf
    \/ InitBacktrackingDsatur
    \/ InitSimulatedAnnealing
    \/ InitMetropolis

NextColoring ==
    \/ NextBacktracking
    \/ NextBranchAndBound
    \/ NextGreedy
    \/ NextDsatur
    \/ NextRlf
    \/ NextBacktrackingDsatur
    \/ NextSimulatedAnnealing
    \/ NextMetropolis

SpecColoring == InitColoring /\ [][NextColoring]_vars

\* a call of one of the three exact searches on a loop-free graph, without pins
\* or on a small graph with pins
InitExact ==
    /\ alg \in {"backtracking", "backtracking_dsat", "branch_and_bound"}
    /\ \/ SimpleGraphInput(MaxFairN) /\ initial_assignment = NoAssignment
       \/ PinnedInputs
    /\ Start

NextExact ==
    \/ NextBacktracking
    \/ NextBacktrackingDsatur
    \/ NextBranchAndBound

\* the call is one sequential thread that is never suspended: while a step of
\* it is possible, a step is taken
SpecExactFair == InitExact /\ [][NextExact]_vars /\ WF_vars(NextExact)

\* the chromatic number of a graph taken from its polynomial, or searched for
\* by find_min_k_backtracking
InitChromaticAgree == InitChromaticNumber \/ InitBacktracking

NextChromaticAgree == NextChromaticNumber \/ NextBacktracking

SpecChromaticAgree == InitChromaticAgree /\ [][NextChromaticAgree]_vars

\* a call of one of the two backtracking drivers with k passed by the caller,
\* on a small loop-free graph, without initial_assignment or with some nodes pinned
InitStartK ==
    /\ alg \in {"backtracking", "backtracking_dsat"}
    /\ SimpleGraphInput(MaxPinN)
    /\ initial_assignment \in {NoAssignment} \cup Assignments(graph, MaxPinColor)
    /\ pc = "start"
    /\ \E k \in 0..MaxStartK : loc = [k_arg |-> k]
    /\ result = algorithmResultTemplate

NextStartK ==
    \/ find_min_k_backtracking_init_k
    \/ backtrack_coloring_base
    \/ backtrack_coloring_skip
    \/ backtrack_coloring_try
    \/ backtrack_coloring_return
    \/ find_min_k_backtracking_return
    \/ find_min_k_backtracking_next_k
    \/ find_min_k_backtracking_dsatur_init_k
    \/ backtrack_dsatur_coloring_base
    \/ backtrack_dsatur_coloring_try
    \/ backtrack_dsatur_coloring_return
    \/ find_min_k_backtracking_dsatur_return
    \/ find_min_k_backtracking_dsatur_next_k

SpecStartK == InitStartK /\ [][NextStartK]_vars

\* a call of one of the two methods that keep the best solution seen
InitBestKept == InitSimulatedAnnealing \/ InitGenetic

NextBestKept ==
    \/ NextSimulatedAnnealing
    \/ NextGenetic

SpecBestKept == InitBestKept /\ [][NextBestKept]_vars

---------------------------------------------------------------------------
(* The properties. *)

\* the nodes reachable from the set S
RECURSIVE Reach(_, _)
Reach(g, S) ==
    LET T == S \cup UNION {g[v] : v \in S}
    IN  IF T = S THEN S ELSE Reach(g, T)

IsConnected(g) == Nodes(g) = {} \/ \E v \in Nodes(g) : Reach(g, {v}) = Nodes(g)

IsCompleteGraph(g) == \A v \in Nodes(g) : g[v] = Nodes(g) \ {v}

\* a cycle: connected, at least 3 nodes, each of degree 2
IsCycle(g) ==
    /\ Cardinality(Nodes(g)) >= 3
    /\ IsConnected(g)
    /\ \A v \in Nodes(g) : Degree(g, v) = 2

IsBipartite(g) == Colorable(g, 2)

\* the cycle 1 - 2 - ... - n - 1
CycleGraph(n) == [v \in 1..n |-> {(v % n) + 1, ((v + n - 2) % n) + 1}]

\* the results of an exact method on a loop-free non-empty graph without pins:
\* a complete proper coloring and the true chromatic number
ExactResult(g, r) ==
    /\ r.status = "returned"
    /\ Complete(g, r.coloring)
    /\ Proper(g, r.coloring)
    /\ r.chromatic_number = Chi(g)
    /\ (IsCycle(g) /\ Cardinality(Nodes(g)) % 2 = 1) => r.chromatic_number = 3
    /\ IsCompleteGraph(g) => r.chromatic_number = Cardinality(Nodes(g))
    /\ (IsBipartite(g) /\ Edges(g) # {}) => r.chromatic_number = 2

UnpinnedSimpleRun ==
    /\ pc = "done"
    /\ ~initial_assignment.given
    /\ ~HasSelfLoop(graph)
    /\ Nodes(graph) # {}

\* C1: on every loop-free graph with at least one node, without pins and from
\* k = 1, find_min_k_backtracking returns a complete proper coloring and the
\* true chromatic number: 3 for an odd cycle (the 5-cycle), n for K_n, 2 for a
\* bipartite graph with an edge.
C1_BacktrackingExact ==
    (alg = "backtracking" /\ UnpinnedSimpleRun) => ExactResult(graph, result)

C1_Witness ==
    /\ alg = "backtracking" /\ pc = "done"
    /\ graph = CycleGraph(5)
    /\ result.chromatic_number = 3

\* C2: on every loop-free graph with at least one node, without pins and
\* without a known optimum, find_min_k_branch_and_bound returns a complete
\* proper coloring and the true chromatic number, in every order of the nodes.
C2_BranchAndBoundExact ==
    (alg = "branch_and_bound" /\ UnpinnedSimpleRun) => ExactResult(graph, result)

\* the call ended by rejecting the graph: it returned None or raised, and gave
\* back no coloring
Rejected(r) == r.status \in {"None", "raised"} /\ r.coloring = EmptyDict

\* C3: on a graph in which some node is its own neighbour, every algorithm ends
\* in a rejection and returns no coloring.
C3_SelfLoopRejected ==
    (pc = "done" /\ HasSelfLoop(graph)) => Rejected(result)

\* the call returned a coloring of every node in which no edge joins two nodes
\* of one color
CompleteProperResult(g, r) ==
    /\ r.status = "returned"
    /\ Complete(g, r.coloring)
    /\ \A v \in Nodes(g) : r.coloring[v] >= 1
    /\ Proper(g, r.coloring)

\* C4: on a loop-free graph, in every visiting order (any permutation for
\* greedy_coloring, the degree-descending order for welsh_powell_coloring), the
\* coloring returned gives every node a color and no two adjacent nodes the same.
C4_GreedyCompleteProper ==
    (alg \in {"greedy", "welsh_powell"} /\ pc = "done" /\ ~HasSelfLoop(graph))
        => CompleteProperResult(graph, result)

\* a bipartite graph on which the visiting order made greedy_coloring use 3 colors
C4_Witness ==
    /\ alg = "greedy" /\ pc = "done"
    /\ Cardinality(Nodes(graph)) = MaxRandN
    /\ IsBipartite(graph)
    /\ result.k = 3

\* C5: on a loop-free graph, connected or not, from any start node,
\* greedy_bfs_coloring returns a coloring that gives every node a color and no
\* two adjacent nodes the same.
C5_GreedyBfsCompleteProper ==
    (alg = "greedy_bfs" /\ pc = "done" /\ ~HasSelfLoop(graph))
        => CompleteProperResult(graph, result)

\* the pins, when there are any, are a proper partial coloring
ProperPins == initial_assignment.given => Proper(graph, initial_assignment.map)

\* C6: on a loop-free graph dsatur_coloring returns a complete proper coloring,
\* also when it is given pins that are themselves proper.
C6_DsaturCompleteProper ==
    (alg = "dsatur" /\ pc = "done" /\ ~HasSelfLoop(graph) /\ ProperPins)
        => CompleteProperResult(graph, result)

\* a run with a pinned node and a free node next to it
C6_Witness ==
    /\ alg = "dsatur" /\ pc = "done"
    /\ initial_assignment.given /\ ProperPins
    /\ \E u \in DOMAIN initial_assignment.map :
          \E v \in graph[u] \ DOMAIN initial_assignment.map :
              initial_assignment.map[u] = 1 /\ result.coloring[v] = 2
    /\ result.status = "returned"

\* the nodes of color c
ColorClass(coloring, c) == {v \in DOMAIN coloring : coloring[v] = c}

IndependentSet(g, S) == \A u \in S : g[u] \cap S = {}

\* C7: on a loop-free graph rlf_coloring returns a complete proper coloring:
\* every node has a color in 1..k and every color class is an independent set.
C7_RlfCompleteProper ==
    (alg = "rlf" /\ pc = "done" /\ ~HasSelfLoop(graph) /\ Nodes(graph) # {})
        => /\ CompleteProperResult(graph, result)
           /\ \A v \in Nodes(graph) : result.coloring[v] \in 1..result.k
           /\ \A c \in 1..result.k : IndependentSet(graph, ColorClass(result.coloring, c))

\* a run that built a color class of two nodes and opened a second color
C7_Witness ==
    /\ alg = "rlf" /\ pc = "done" /\ result.status = "returned"
    /\ result.k = 2
    /\ Cardinality(ColorClass(result.coloring, 1)) >= 2
    /\ Edges(graph) # {}

\* C8: on the graph without nodes every algorithm returns normally, with k = 0
\* and the empty coloring.
C8_EmptyGraph ==
    (pc = "done" /\ Nodes(graph) = {})
        => /\ result.status = "returned"
           /\ result.k = 0
           /\ result.coloring = EmptyDict

\* the number of proper colorings of g with the colors 1..x
CountColorings(g, x) ==
    Cardinality({c \in [Nodes(g) -> 1..x] : \A u \in Nodes(g) : \A v \in g[u] : c[u] # c[v]})

\* the coefficients, highest degree first, of p(x) * (x - a)
PolyTimesLinear(p, a) ==
    [i \in 1..(Len(p) + 1) |->
        (IF i <= Len(p) THEN p[i] ELSE 0) - a * (IF i >= 2 THEN p[i - 1] ELSE 0)]

\* x (x - 1) ... (x - n + 1)
RECURSIVE FallingFactorial(_)
FallingFactorial(n) ==
    IF n = 0 THEN <<1>> ELSE PolyTimesLinear(FallingFactorial(n - 1), n - 1)

\* (x - 1)^m
RECURSIVE PowerOfXMinusOne(_)
PowerOfXMinusOne(m) ==
    IF m = 0 THEN <<1>> ELSE PolyTimesLinear(PowerOfXMinusOne(m - 1), 1)

\* x (x - 1)^(n - 1)
TreePolynomial(n) == PolyTimesLinear(PowerOfXMinusOne(n - 1), 0)

IsTree(g) ==
    /\ Nodes(g) # {}
    /\ IsConnected(g)
    /\ Cardinality(Edges(g)) = Cardinality(Nodes(g)) - 1

\* C9: compute_chromatic_polynomial returns, highest degree first, the
\* coefficients of the chromatic polynomial of a loop-free graph: n + 1 of them,
\* whose value at every x, as evaluate_chromatic_polynomial computes it (when
\* the list is returned and at each later call), is the number of proper
\* colorings with x colors; <<1, -3, 2, 0>> for the triangle,
\* with the value 6 at 3; the falling factorial for K_n; x (x - 1)^(n - 1) for
\* a tree on n nodes.
C9_ChromaticPolynomial ==
    (alg = "deletion_contraction" /\ pc = "run" /\ ~HasSelfLoop(graph))
        => LET n == Cardinality(Nodes(graph))
           IN  /\ Len(loc.coefficients) = n + 1
               /\ loc.k = NoneVal =>
                     \A x \in 0..MaxX :
                        evaluate_chromatic_polynomial(loc.coefficients, x)
                            = CountColorings(graph, x)
               /\ loc.k # NoneVal => loc.Pk = CountColorings(graph, loc.k)
               /\ graph = CycleGraph(3) =>
                     /\ loc.coefficients = <<1, -3, 2, 0>>
                     /\ loc.k = 3 => loc.Pk = 6
               /\ IsCompleteGraph(graph) => loc.coefficients = FallingFactorial(n)
               /\ IsTree(graph) => loc.coefficients = TreePolynomial(n)

\* the triangle, its polynomial, and its value at 3
C9_Witness ==
    /\ alg = "deletion_contraction" /\ pc = "run"
    /\ graph = CycleGraph(3)
    /\ loc.coefficients = <<1, -3, 2, 0>>
    /\ loc.k = 3 /\ loc.Pk = 6

\* the coloring c gives every pinned node its pinned color
PinsKept(c) ==
    \A v \in DOMAIN initial_assignment.map :
        v \in DOMAIN c /\ c[v] = initial_assignment.map[v]

\* the coloring the running call works on
CurrentColoring ==
    CASE alg = "dsatur" -> loc.color
      [] alg = "simulated_annealing" -> loc.current_solution
      [] OTHER -> loc.coloring

\* the snapshots the running call has recorded
CurrentSteps ==
    CASE alg \in {"dsatur", "simulated_annealing"} -> loc.steps
      [] OTHER -> loc.steps_list

\* C10: in a run of dsatur_coloring, find_min_k_backtracking,
\* find_min_k_backtracking_dsatur or simulated_annealing_coloring with pins, every
\* pinned node has its pinned color in the coloring at every step, in every
\* snapshot recorded, and in the coloring and the steps returned.
C10_PinsKept ==
    (/\ alg \in {"dsatur", "backtracking", "backtracking_dsat", "simulated_annealing"}
     /\ initial_assignment.given)
        => /\ pc = "run" =>
                /\ PinsKept(CurrentColoring)
                /\ \A i \in DOMAIN CurrentSteps : PinsKept(CurrentSteps[i])
                /\ alg = "simulated_annealing" => PinsKept(loc.best_solution)
           /\ (pc = "done" /\ result.status = "returned") =>
                /\ PinsKept(result.coloring)
                /\ \A i \in DOMAIN result.steps : PinsKept(result.steps[i])

\* a backtracking run with a pinned and a free node that undid an assignment
C10_Witness ==
    /\ alg = "backtracking" /\ pc = "done" /\ result.status = "returned"
    /\ initial_assignment.given
    /\ DOMAIN initial_assignment.map # {}
    /\ DOMAIN initial_assignment.map # Nodes(graph)
    /\ PinsKept(result.coloring)
    /\ \E i \in 1..(Len(result.steps) - 1) :
          /\ DOMAIN result.steps[i + 1] # DOMAIN result.steps[i]
          /\ DOMAIN result.steps[i + 1] \subseteq DOMAIN result.steps[i]

\* the call returned a coloring of every node of g that uses at most |V| colors,
\* and reports a color count of at most |V|
WithinNodeCount(g, r) ==
    /\ r.status = "returned"
    /\ Complete(g, r.coloring)
    /\ Cardinality(Values(r.coloring)) <= Cardinality(Nodes(g))
    /\ r.k <= Cardinality(Nodes(g))

\* C11: on every loop-free graph without pins, find_min_k_backtracking,
\* find_min_k_backtracking_dsatur and find_min_k_branch_and_bound each come to
\* an end, and at the end have returned (never None) a complete coloring with
\* at most |V| colors, the k at which the search stopped being at most |V|.
C11_ExactTerminates ==
    /\ (~initial_assignment.given /\ ~HasSelfLoop(graph)) => <>(pc = "done")
    /\ []((~initial_assignment.given /\ ~HasSelfLoop(graph) /\ pc = "done")
            => WithinNodeCount(graph, result))

\* (|V| + 1) * (the edges whose ends share a color) + (the colors used - 1)
TrueCost(g, c) ==
    (Cardinality(Nodes(g)) + 1)
        * Cardinality({e \in Edges(g) : \A u, v \in e : c[u] = c[v]})
    + (Cardinality(Values(c)) - 1)

\* the tracked best cost of a running call that has one
BestCost ==
    IF alg = "simulated_annealing" THEN loc.best_cost ELSE loc.best_cost_val

\* the retained best coloring has the tracked best cost
BestCostExact ==
    /\ (alg = "simulated_annealing" /\ pc = "run")
          => loc.best_cost = TrueCost(graph, loc.best_solution)
    /\ (alg = "ga_coloring" /\ pc = "run" /\ loc.best_individual.given)
          => loc.best_cost_val = TrueCost(graph, loc.best_individual.map)

\* C12: in a run of simulated_annealing_coloring or genetic_coloring on a
\* loop-free graph the tracked best cost never rises from one step to the next,
\* and the best coloring kept always has exactly that cost,
\* (|V| + 1) * conflicts + (distinct colors - 1).
C12_BestCostMonotone ==
    /\ []((alg \in {"simulated_annealing", "ga_coloring"} /\ ~HasSelfLoop(graph))
            => BestCostExact)
    /\ [][(/\ alg \in {"simulated_annealing", "ga_coloring"}
           /\ ~HasSelfLoop(graph)
           /\ pc = "run" /\ pc' = "run") => BestCost' <= BestCost]_vars

\* a genetic run whose second generation found a cheaper best than its first
C12_Witness ==
    /\ alg = "ga_coloring" /\ pc = "run"
    /\ Len(loc.steps) = 2
    /\ TrueCost(graph, loc.steps[1]) > loc.best_cost_val
    /\ loc.best_cost_val = TrueCost(graph, loc.best_individual.map)

\* C13: in a run of simulated_annealing_coloring on a loop-free graph, once the
\* current solution is free of conflicts (at the start or after an accepted
\* move) the best solution kept is proper and stays proper, the best solution
\* is one of the solutions the run has been in and costs no more than the
\* current one, and the coloring returned is that best solution, whatever
\* the last state was.
C13_AnnealingReturnsBest ==
    /\ []((alg = "simulated_annealing" /\ ~HasSelfLoop(graph) /\ pc = "run")
            => /\ TrueCost(graph, loc.best_solution) <= TrueCost(graph, loc.current_solution)
               /\ Proper(graph, loc.current_solution) => Proper(graph, loc.best_solution))
    /\ []((alg = "simulated_annealing" /\ ~HasSelfLoop(graph) /\ Nodes(graph) # {}
            /\ pc = "done")
            => /\ result.status = "returned"
               /\ result.coloring = loc.best_solution
               /\ Proper(graph, loc.best_solution) => Proper(graph, result.coloring))
    /\ [][(alg = "simulated_annealing" /\ ~HasSelfLoop(graph) /\ pc = "run" /\ pc' = "run")
            => /\ Proper(graph, loc.best_solution) => Proper(graph, loc'.best_solution)
               /\ loc'.best_solution \in {loc.best_solution, loc'.current_solution}]_vars

\* a run that was free of conflicts, ended in a state with a conflict, and
\* returned the proper coloring
C13_Witness ==
    /\ alg = "simulated_annealing" /\ pc = "done" /\ result.status = "returned"
    /\ Edges(graph) # {}
    /\ ~Proper(graph, loc.current_solution)
    /\ Proper(graph, result.coloring)

\* some member of the population has no conflicting edge
HasProperMember(g, population) ==
    \E i \in DOMAIN population : Proper(g, population[i])

\* C14: in a run of genetic_coloring on a loop-free graph, once a population (the
\* initial one, or the offspring of any generation, the last included) has a
\* member without conflicting edges, the best individual is proper from the
\* evaluation on and the coloring returned is proper.
C14_GeneticReturnsProper ==
    /\ []((alg = "ga_coloring" /\ ~HasSelfLoop(graph) /\ pc = "run"
            /\ loc.at = "offspring" /\ HasProperMember(graph, loc.population))
            => Proper(graph, loc.best_individual.map))
    /\ [][(alg = "ga_coloring" /\ ~HasSelfLoop(graph) /\ pc = "run" /\ pc' = "run"
            /\ loc.best_individual.given /\ Proper(graph, loc.best_individual.map))
            => Proper(graph, loc'.best_individual.map)]_vars
    /\ []((alg = "ga_coloring" /\ ~HasSelfLoop(graph) /\ pc = "done" /\ Nodes(graph) # {}
            /\ (HasProperMember(graph, loc.population)
                \/ Proper(graph, loc.best_individual.map)))
            => (result.status = "returned" /\ Proper(graph, result.coloring)))

\* c gives every node of g a color of 1..q and no edge two ends of one color
ProperWithin(g, c, q) ==
    /\ Complete(g, c)
    /\ \A v \in Nodes(g) : c[v] \in 1..q
    /\ Proper(g, c)

\* C15: on a loop-free graph with at least one node metropolis_coloring works
\* with a palette q > 4 * Delta, and the coloring it holds after the greedy
\* seeding and after every pass of its main loop, and the one it returns, is
\* complete and proper with colors in 1..q.
C15_MetropolisProper ==
    (alg = "metropolis" /\ ~HasSelfLoop(graph) /\ Nodes(graph) # {})
        => /\ pc = "run" =>
                /\ loc.q > 4 * MaxDegree(graph)
                /\ ProperWithin(graph, loc.f, loc.q)
                /\ \A i \in DOMAIN loc.steps : ProperWithin(graph, loc.steps[i], loc.q)
           /\ pc = "done" =>
                /\ result.status = "returned"
                /\ ProperWithin(graph, result.coloring, choose_q(graph))

\* a run on a graph with an edge that left the seed coloring: recolors were
\* applied until both ends of an edge hold a color above 1
C15_Witness ==
    /\ alg = "metropolis" /\ pc = "done" /\ result.status = "returned"
    /\ Edges(graph) # {}
    /\ result.coloring # metropolis_seed(graph, choose_q(graph), 1, EmptyDict)
    /\ \E v \in Nodes(graph) : \E nbr \in graph[v] :
          result.coloring[v] > 1 /\ result.coloring[nbr] > 1

\* the value of the polynomial held in loc at x
PolyAt(x) == evaluate_chromatic_polynomial(loc.coefficients, x)

\* C16: compute_chromatic_number evaluates the polynomial at 1, 2, ... in
\* increasing order, every value before the current one being recorded and not
\* positive; it returns the smallest x in 1..max_k whose value is positive,
\* which on a loop-free graph is the smallest positive number of colors with a
\* proper coloring; it raises exactly when no x in 1..max_k has a positive
\* value, as for the polynomial <<0>> of a graph with a self-loop.
C16_ChromaticNumberScan ==
    (alg = "compute_chromatic_number" /\ pc # "start")
        => /\ Len(loc.polynomial_evaluation) \in {loc.k - 1, loc.k}
           /\ \A i \in DOMAIN loc.polynomial_evaluation :
                 /\ loc.polynomial_evaluation[i] = PolyAt(i)
                 /\ i < loc.k => loc.polynomial_evaluation[i] <= 0
           /\ pc = "run" => Len(loc.polynomial_evaluation) = loc.k - 1
           /\ HasSelfLoop(graph) => loc.coefficients = <<0>>
           /\ pc = "done"
                => /\ result.status \in {"returned", "raised"}
                   /\ result.status = "returned"
                        <=> \E x \in 1..loc.max_k : PolyAt(x) > 0
                   /\ result.status = "returned"
                        => /\ result.chromatic_number \in 1..loc.max_k
                           /\ PolyAt(result.chromatic_number) > 0
                           /\ \A x \in 1..(result.chromatic_number - 1) : PolyAt(x) <= 0
                           /\ Len(loc.polynomial_evaluation) = result.chromatic_number
                           /\ ~HasSelfLoop(graph)
                           /\ CountColorings(graph, result.chromatic_number) > 0
                           /\ \A x \in 1..(result.chromatic_number - 1) :
                                 CountColorings(graph, x) = 0
                   /\ result.status = "raised"
                        => /\ Len(loc.polynomial_evaluation) = loc.max_k
                           /\ result.chromatic_number = NoneVal
                   /\ HasSelfLoop(graph) => result.status = "raised"

\* the scan of the triangle's polynomial: 0 at 1 and at 2, 6 at 3, returned 3
C16_Witness ==
    /\ alg = "compute_chromatic_number" /\ pc = "done"
    /\ result.status = "returned"
    /\ result.chromatic_number = 3
    /\ loc.polynomial_evaluation = <<0, 0, 6>>

\* C17: validate_graph ends with the InvalidGraph outcome (the 400 response)
\* on every dict in which some node is in its own neighbour list, and returns
\* True only for graphs without a self-loop.
C17_ValidateRejectsSelfLoops ==
    (alg = "validate_graph" /\ pc = "done" /\ loc.graph_is = "dict")
        => /\ (\E node \in Nodes(graph) :
                   node \notin loc.not_a_list /\ node \in graph[node])
                => result = Return400
           /\ result = ReturnTrue => ~HasSelfLoop(graph)

\* C18: in the result of every algorithm on every input, pinned runs
\* included, the reported k is the number of distinct colors that occur in the
\* returned coloring.
C18_KCountsColors ==
    (pc = "done" /\ result.status = "returned")
        => result.k = Cardinality(Values(result.coloring))

\* the heuristic and metaheuristic methods
Heuristics ==
    {"greedy", "welsh_powell", "greedy_bfs", "dsatur", "rlf", "simulated_annealing",
     "ga_coloring", "metropolis"}

\* C19: a result of a heuristic or metaheuristic method on a graph with a node
\* leaves chromatic_number unset, and a chromatic_number that is set is the
\* true chromatic number of the graph.
C19_ChromaticNumberOnlyExact ==
    (pc = "done" /\ result.status = "returned" /\ Nodes(graph) # {})
        => /\ alg \in Heuristics => result.chromatic_number = NoneVal
           /\ (result.chromatic_number # NoneVal /\ ~HasSelfLoop(graph))
                => result.chromatic_number = Chi(graph)

\* some proper coloring of every node of g extends partial and has exactly
\* count distinct colors, taken from 1..count
FeasibleCompletion(g, partial, count) ==
    \E rest \in [Nodes(g) \ DOMAIN partial -> 1..count] :
        LET c == [v \in Nodes(g) |-> IF v \in DOMAIN partial THEN partial[v] ELSE rest[v]]
        IN  /\ \A u \in Nodes(g) : \A v \in g[u] : c[u] # c[v]
            /\ Cardinality(Values(c)) = count

\* the statement of C20 for one state of the queue
BoundIsFeasible(e) ==
    /\ e.prio = greedy_extension(e.coloring, loc.nodes_ordered, graph)
    /\ FeasibleCompletion(graph, e.coloring, e.prio)
    /\ e.prio >= MaxValueOr(e.coloring, 0)
    /\ ~HasSelfLoop(graph) => e.prio >= Chi(graph)
    /\ DOMAIN e.coloring = Nodes(graph) => e.prio = Cardinality(Values(e.coloring))

\* C20: in find_min_k_branch_and_bound without pins, the priority of every
\* state in the queue (so of every state pushed and of every state popped) is
\* the value of greedy_extension on its coloring and the number of colors of a
\* proper complete coloring that extends it; it is at least the largest color
\* the state uses and at least the chromatic number of the graph, and for a
\* complete state it is the number of colors the state uses.
C20_GreedyBoundFeasible ==
    (alg = "branch_and_bound" /\ pc = "run" /\ ~initial_assignment.given)
        => \A e \in loc.heap : BoundIsFeasible(e)

\* the coloring that the running calls of backtrack_coloring account for: the
\* pins, and for every call waiting at line 46 the color it gave its node
BtAssigned(stack) ==
    LET waiting == {i \in DOMAIN stack : stack[i].at = "line46"}
        node(i) == loc.nodes_ordered[stack[i].node_index + 1]
    IN  [v \in DOMAIN initial_assignment.map \cup {node(i) : i \in waiting} |->
            IF v \in DOMAIN initial_assignment.map THEN initial_assignment.map[v]
            ELSE stack[CHOOSE i \in waiting : node(i) = v].color]

\* the calls below the running one are as they were when it was entered
BtCallersKept ==
    LET below == Min({Len(loc.stack), Len(loc'.stack)}) - 1
    IN  SubSeq(loc'.stack, 1, below) = SubSeq(loc.stack, 1, below)

\* C21: while no call of backtrack_coloring has returned True, the coloring
\* holds the pins and the one assignment of each call that waits for its
\* recursive call, and a step never alters the calls below the running one; so
\* at the return of False the coloring is what it was when the call was
\* entered, and each attempt with the next k starts from the pins alone.
C21_BacktrackUndo ==
    /\ [](  (alg = "backtracking" /\ pc = "run" /\ loc.ret # "True")
            => /\ loc.coloring = BtAssigned(loc.stack)
               /\ (loc.ret = "False" /\ loc.stack = <<>>)
                    => loc.coloring = initial_assignment.map)
    /\ [][ (alg = "backtracking" /\ pc = "run" /\ pc' = "run")
            => /\ loc.stack # <<>> => BtCallersKept
               /\ (loc.stack = <<>> /\ loc.ret = "False")
                    => loc'.coloring = initial_assignment.map ]_vars

\* a pinned run in which an assignment was made and undone, the outermost call
\* has returned False and the coloring is back to the pins
C21_Witness ==
    /\ alg = "backtracking" /\ pc = "run"
    /\ initial_assignment.given /\ DOMAIN initial_assignment.map # {}
    /\ loc.stack = <<>> /\ loc.ret = "False"
    /\ \E i \in DOMAIN loc.steps_list : loc.steps_list[i] # initial_assignment.map
    /\ loc.coloring = initial_assignment.map

\* the colors held by the colored neighbours of v in coloring c, 0 being "no color"
ColorsAround(g, c, v) == {c[u] : u \in {x \in g[v] : c[x] # 0}}

\* (s1, d1) <= (s2, d2) as Python compares tuples
PairLeq(s1, d1, s2, d2) == s1 < s2 \/ (s1 = s2 /\ d1 <= d2)

\* C22: at the start of every pass of the main loop of dsatur_coloring, every
\* uncolored node v has neighbor_colors_used[v] equal to the set of colors of
\* its colored neighbours, pinned ones included, and saturation[v] equal to its
\* size; the node colored in a pass has the greatest (saturation, degree) among
\* the uncolored nodes and gets the least positive color not in that set.
C22_DsaturBookkeeping ==
    /\ [](  (alg = "dsatur" /\ pc = "run")
            => /\ loc.uncolored_nodes = {v \in Nodes(graph) : loc.color[v] = 0}
               /\ \A v \in loc.uncolored_nodes :
                     /\ loc.neighbor_colors_used[v] = ColorsAround(graph, loc.color, v)
                     /\ loc.saturation[v] = Cardinality(ColorsAround(graph, loc.color, v)))
    /\ [][ (alg = "dsatur" /\ pc = "run" /\ pc' = "run")
            => \E v \in loc.uncolored_nodes :
                  /\ loc'.uncolored_nodes = loc.uncolored_nodes \ {v}
                  /\ \A u \in Nodes(graph) \ {v} : loc'.color[u] = loc.color[u]
                  /\ \A u \in loc.uncolored_nodes :
                        PairLeq(Cardinality(ColorsAround(graph, loc.color, u)),
                                Cardinality(graph[u]),
                                Cardinality(ColorsAround(graph, loc.color, v)),
                                Cardinality(graph[v]))
                  /\ loc'.color[v] >= 1
                  /\ loc'.color[v] \notin ColorsAround(graph, loc.color, v)
                  /\ \A c \in 1..(loc'.color[v] - 1) :
                        c \in ColorsAround(graph, loc.color, v) ]_vars

\* a pinned run at the start of a pass: an uncolored node has a pinned and a
\* freely colored neighbour of different colors, and saturation 2
C22_Witness ==
    /\ alg = "dsatur" /\ pc = "run"
    /\ \E v \in loc.uncolored_nodes :
          /\ loc.saturation[v] = 2
          /\ \E u \in graph[v] : u \in DOMAIN initial_assignment.map
          /\ \E u \in graph[v] : u \notin DOMAIN initial_assignment.map /\ loc.color[u] # 0

\* the class RLF is building: the nodes that hold current_color
RlfClass == {v \in Nodes(graph) : loc.color[v] = loc.current_color}

\* C23: while rlf_coloring builds a color class, P and Q partition the
\* uncolored nodes, every node of P has a neighbour in the class and no node of
\* Q has one; the class is independent, and when Q is empty every node that was
\* uncolored when the class was started is in the class or next to it; the
\* number of classes is the number of distinct colors used, also in the result.
C23_RlfPartition ==
    /\ (alg = "rlf" /\ pc = "run" /\ loc.current_color >= 1)
         => /\ loc.P \cap loc.Q = {}
            /\ loc.P \cup loc.Q = loc.uncolored
            /\ loc.uncolored = {v \in Nodes(graph) : loc.color[v] = 0}
            /\ \A v \in loc.P : graph[v] \cap RlfClass # {}
            /\ \A v \in loc.Q : graph[v] \cap RlfClass = {}
            /\ \A u \in RlfClass : graph[u] \cap RlfClass = {}
            /\ RlfClass # {}
            /\ loc.Q = {} => \A v \in loc.uncolored : graph[v] \cap RlfClass # {}
            /\ Values(loc.color) \ {0} = 1..loc.current_color
    /\ (alg = "rlf" /\ pc = "done" /\ result.status = "returned")
         => /\ Values(result.coloring) = 1..result.k
            /\ Cardinality(Values(result.coloring)) = result.k

\* a class of two nodes is finished while blocked nodes remain, one of them
\* blocked by the node that joined the class after the seed
C23_Witness ==
    /\ alg = "rlf" /\ pc = "run" /\ loc.current_color >= 1
    /\ loc.Q = {} /\ loc.P # {}
    /\ Cardinality(RlfClass) >= 2
    /\ \E v \in loc.P : \E w \in RlfClass :
          Cardinality(graph[v] \cap RlfClass) = 1 /\ w \in graph[v]
          /\ Len(loc.steps) >= 2 /\ loc.steps[Len(loc.steps) - 1][w] = 0

\* the nodes that occur in a neighbour list
ListNodes(neighbors) == {x \in DOMAIN neighbors : neighbors[x] > 0}

ConflictEdges(g, c) ==
    {e \in SUBSET Nodes(g) : \E u \in e : \E v \in e :
        e = {u, v} /\ u # v /\ v \in g[u] /\ c[u] = c[v]}

\* C26: in simulated_annealing_coloring, after the initialization and after
\* every pass of the main loop, accepted or not, current_conflicts is the
\* number of edges whose ends share a color in current_solution,
\* current_distinct the number of distinct colors in it, color_counts the
\* number of nodes of each color in use and of no other, and current_cost is
\* (|V| + 1) * current_conflicts + (current_distinct - 1).
C26_AnnealingCounts ==
    (alg = "simulated_annealing" /\ pc = "run")
        => LET sol == loc.current_solution
           IN  /\ loc.current_conflicts = Cardinality(ConflictEdges(graph, sol))
               /\ loc.current_distinct = Cardinality(Values(sol))
               /\ DOMAIN loc.color_counts = Values(sol)
               /\ \A color \in DOMAIN loc.color_counts :
                     loc.color_counts[color] =
                        Cardinality({v \in Nodes(graph) : sol[v] = color})
               /\ loc.current_cost =
                     (Cardinality(Nodes(graph)) + 1) * loc.current_conflicts
                     + (loc.current_distinct - 1)

\* after three passes the solution has a conflict and fewer colors than the
\* best one: moves that removed a color and made a conflict were accepted
C26_Witness ==
    /\ alg = "simulated_annealing" /\ pc = "run"
    /\ loc.iteration = 3
    /\ loc.current_conflicts >= 1
    /\ loc.current_distinct < Cardinality(Values(loc.best_solution))

\* C25: every run of simulated annealing on a loop-free graph with a node comes
\* to its end, after at most max_iter = 10000 * |V| passes of the main loop,
\* and in every pass the colors the replacement is drawn from include a color
\* other than the current color of the node, so that the draw comes to an end.
C25_AnnealingTerminates ==
    /\ (Nodes(graph) # {} /\ ~HasSelfLoop(graph)) => <>(pc = "done")
    /\ []((alg = "simulated_annealing" /\ pc = "run")
            => /\ loc.iteration <= loc.max_iter
               /\ loc.max_iter = 10000 * Cardinality(Nodes(graph))
               /\ \A node \in sa_candidates :
                     (1..(Max(Values(loc.current_solution)) + 1))
                        \ {loc.current_solution[node]} # {})
    /\ []((alg = "simulated_annealing2" /\ pc = "run")
            => /\ loc.iteration <= loc.max_iter
               /\ loc.max_iter = 10000 * Cardinality(Nodes(graph))
               /\ loc.at = "line99" => loc.current_set \ {loc.old_color} # {})

\* C27: at the end of every generation of genetic_coloring the best individual
\* found so far is in the population handed to the next generation, which
\* therefore holds an individual whose cost is the tracked best cost.
C27_ElitismKeepsBest ==
    (alg = "ga_coloring" /\ pc = "run" /\ loc.at = "evaluate" /\ loc.generation >= 1)
        => /\ \E i \in DOMAIN loc.population : loc.population[i] = loc.best_individual.map
           /\ \E i \in DOMAIN loc.population :
                 TrueCost(graph, loc.population[i]) = loc.best_cost_val

\* the colorings greedy_coloring may return on g, coloring being the partial
\* coloring built so far: each order of the nodes, the least free color each
RECURSIVE GreedyColorings(_, _)
GreedyColorings(g, coloring) ==
    IF DOMAIN coloring = Nodes(g) THEN {coloring}
    ELSE UNION {GreedyColorings(g, Put(coloring, node,
                    SmallestColorNotIn({coloring[nbr] : nbr \in g[node] \cap DOMAIN coloring})))
                : node \in Nodes(g) \ DOMAIN coloring}

\* C28: the first individual of the initial population of genetic_coloring is
\* a coloring returned by greedy_coloring for the graph, the next
\* max(1, 20% of population_size) - 1 are copies of it with some nodes redrawn,
\* and only the others are random colorings over 1..q.
C28_GeneticSeeded ==
    (alg = "ga_coloring" /\ pc = "run" /\ loc.generation = 0 /\ loc.at = "evaluate"
       /\ ~HasSelfLoop(graph))
        => LET heuristic_count == Max({1, (2 * population_size) \div 10})
           IN  /\ loc.population[1] \in GreedyColorings(graph, EmptyDict)
               /\ \A i \in 2..heuristic_count : \A node \in Nodes(graph) :
                     loc.population[i][node] \in 1..loc.q \cup {loc.population[1][node]}
               /\ \A i \in DOMAIN loc.population : \A node \in Nodes(graph) :
                     loc.population[i][node] \in 1..loc.q

\* with colors 1..k the nodes outside pins can be colored so that each of them
\* differs from all its neighbours, the pinned nodes keeping their colors
AdmitsExtension(g, pins, k) ==
    \E c \in [Nodes(g) \ DOMAIN pins -> 1..k] :
        LET full == [v \in Nodes(g) |-> IF v \in DOMAIN pins THEN pins[v] ELSE c[v]]
        IN  \A v \in Nodes(g) \ DOMAIN pins : \A w \in g[v] : full[w] # full[v]

RECURSIVE FirstAdmittingK(_, _, _)
FirstAdmittingK(g, pins, k) ==
    IF AdmitsExtension(g, pins, k) THEN k ELSE FirstAdmittingK(g, pins, k + 1)

\* the k both searches start from: the caller's k, or the largest pinned
\* color if that is greater
StartingK == Max({loc.k_arg} \cup Values(initial_assignment.map))

\* C29: called with the same graph, pins and starting k, static-order
\* backtracking and DSATUR-guided backtracking return the same k and
\* chromatic_number: each returns the first k, from the starting k on, for
\* which the pins extend to a complete assignment with colors 1..k.
C29_SameFirstK ==
    (alg \in {"backtracking", "backtracking_dsat"} /\ pc = "done")
        => /\ result.k = FirstAdmittingK(graph, initial_assignment.map, StartingK)
           /\ result.chromatic_number = result.k

\* C30: on a loop-free graph with at least one node, compute_chromatic_number
\* applied to the deletion-contraction polynomial with the default bound, the
\* number of coefficients |V| + 1, returns without raising, and what it returns
\* is the chromatic_number find_min_k_backtracking returns for the graph: both
\* are the least number of colors with a proper coloring.
C30_PolynomialAgrees ==
    (pc = "done" /\ ~HasSelfLoop(graph) /\ Nodes(graph) # {} /\ ~initial_assignment.given)
        => /\ alg = "backtracking"
                => /\ result.status = "returned"
                   /\ result.chromatic_number = Chi(graph)
           /\ alg = "compute_chromatic_number"
                => /\ Len(loc.coefficients) = Cardinality(Nodes(graph)) + 1
                   /\ loc.max_k = Len(loc.coefficients)
                        => /\ result.status = "returned"
                           /\ result.chromatic_number = Chi(graph)

\* the polynomial of the path on three nodes scanned with the default bound 4:
\* 0 at 1, 2 at 2, and 2 is returned
C30_Witness ==
    /\ alg = "compute_chromatic_number" /\ pc = "done"
    /\ graph = <<{2}, {1, 3}, {2}>>
    /\ loc.max_k = 4
    /\ loc.polynomial_evaluation = <<0, 2>>
    /\ result.chromatic_number = 2
    /\ Chi(graph) = 2

=============================================================================
